---- MODULE Spec2Model ----
(***************************************************************************)
(* Model of the sonotheia_rust sensor core: input validation, framing,     *)
(* the three detectors (vacuum / phase / articulation) and SensorResult.   *)
(*                                                                         *)
(* Numbers are fixed point.  Scores and thresholds are in thousandths      *)
(* (One = 1.0), frequencies in Hz, RMS energy in units of 1e-4, phases in  *)
(* centiradians, zero-crossing rates in thousandths.  Option<T> is a       *)
(* sequence: None = <<>>, Some(x) = <<x>>.                                 *)
(*                                                                         *)
(* An audio clip is [len, bad, tex]: its length in samples, the set of     *)
(* its non-finite samples <<index, "nan"|"inf">>, and the texture that     *)
(* fixes what windowing and the transform yield for its k-th frame (RMS,   *)
(* zero-crossing rate, magnitude and phase per bin).                       *)
(***************************************************************************)
EXTENDS Integers, Sequences, FiniteSets, TLC

VARIABLES sensors, last, memo, calls, held, built, writes

vars == <<sensors, last, memo, calls, held, built, writes>>

----------------------------------------------------------------------------
(* Fixed-point helpers *)

One == 1000

None == <<>>

Some(x) == <<x>>

Min(a, b) == IF a < b THEN a ELSE b

Max(a, b) == IF a > b THEN a ELSE b

Abs(a) == IF a < 0 THEN -a ELSE a

\* f64::clamp(lo, hi)
Clamp(x, lo, hi) == IF x < lo THEN lo ELSE IF x > hi THEN hi ELSE x

\* floor of the square root (f64::sqrt at the model's resolution)
RECURSIVE SqrtSearch(_, _, _)
SqrtSearch(n, lo, hi) ==
    IF lo >= hi THEN lo
    ELSE LET mid == (lo + hi + 1) \div 2
         IN  IF mid * mid <= n THEN SqrtSearch(n, mid, hi)
             ELSE SqrtSearch(n, lo, mid - 1)

Sqrt(n) == SqrtSearch(n, 0, 46340)

\* s[lo] + ... + s[hi], split in halves to keep the evaluation shallow
RECURSIVE SumRange(_, _, _)
SumRange(s, lo, hi) ==
    IF lo > hi THEN 0
    ELSE IF lo = hi THEN s[lo]
    ELSE LET mid == (lo + hi) \div 2
         IN  SumRange(s, lo, mid) + SumRange(s, mid + 1, hi)

\* iter().sum()
Sum(s) == SumRange(s, 1, Len(s))

\* truncating division (f64 division at the model's resolution; sign kept)
Div(a, b) == IF a >= 0 THEN a \div b ELSE -((-a) \div b)

----------------------------------------------------------------------------
(* utils/errors.rs and utils/audio.rs: validation and framing *)

MIN_SAMPLE_RATE == 8000

MAX_SAMPLE_RATE == 96000

MIN_SAMPLES == 8

Ok == [ok |-> TRUE]

Err(e) == [ok |-> FALSE, err |-> e]

invalid_sample_rate(rate) == [type |-> "InvalidSampleRate", rate |-> rate]

insufficient_data(required, actual) ==
    [type |-> "InsufficientData", required |-> required, actual |-> actual]

invalid_input(what, i) == [type |-> "InvalidInput", what |-> what, at |-> i]

is_nan(clip, i) == <<i, "nan">> \in clip.bad

is_infinite(clip, i) == <<i, "inf">> \in clip.bad

\* the element-wise loop without the is_infinite test
ScanSamples_nan_only(clip) ==
    LET offending == {b[1] : b \in {c \in clip.bad : c[1] < clip.len /\ c[2] = "nan"}}
    IN  IF offending = {} THEN Ok
        ELSE Err(invalid_input("NaN", CHOOSE i \in offending : \A j \in offending : i <= j))

\* the element-wise loop of validate_audio_input: it returns at the first
\* sample (lowest index below len) that is NaN or infinite
ScanSamples(clip) ==
    LET offending == {b[1] : b \in {c \in clip.bad : c[1] < clip.len}}
        first == CHOOSE i \in offending : \A j \in offending : i <= j
    IN  IF offending = {} THEN Ok
        ELSE IF is_nan(clip, first) THEN Err(invalid_input("NaN", first))
        ELSE Err(invalid_input("Infinite", first))

\* audio.len() <= MIN_SAMPLES
validate_audio_input_off_by_one(clip, sample_rate) ==
    IF sample_rate < MIN_SAMPLE_RATE \/ sample_rate > MAX_SAMPLE_RATE
    THEN Err(invalid_sample_rate(sample_rate))
    ELSE IF clip.len <= MIN_SAMPLES
    THEN Err(insufficient_data(MIN_SAMPLES, clip.len))
    ELSE ScanSamples(clip)

\* the sample loop ahead of the length check
validate_audio_input_scan_first(clip, sample_rate) ==
    IF sample_rate < MIN_SAMPLE_RATE \/ sample_rate > MAX_SAMPLE_RATE
    THEN Err(invalid_sample_rate(sample_rate))
    ELSE IF ~ScanSamples(clip).ok THEN ScanSamples(clip)
    ELSE IF clip.len < MIN_SAMPLES
    THEN Err(insufficient_data(MIN_SAMPLES, clip.len))
    ELSE Ok

validate_audio_input(clip, sample_rate) ==
    IF sample_rate < MIN_SAMPLE_RATE \/ sample_rate > MAX_SAMPLE_RATE
    THEN Err(invalid_sample_rate(sample_rate))
    ELSE IF clip.len < MIN_SAMPLES
    THEN Err(insufficient_data(MIN_SAMPLES, clip.len))
    ELSE ScanSamples(clip)

\* the loop with start + frame_size < audio.len()
RECURSIVE FrameLoop_strict(_, _, _, _, _)
FrameLoop_strict(n, frame_size, hop_size, start, frames) ==
    IF start + frame_size < n
    THEN FrameLoop_strict(n, frame_size, hop_size, start + hop_size,
                          Append(frames, [start |-> start, len |-> frame_size]))
    ELSE frames

\* the loop with start < audio.len(): the last frames are cut at the end
RECURSIVE FrameLoop_partial(_, _, _, _, _)
FrameLoop_partial(n, frame_size, hop_size, start, frames) ==
    IF start < n
    THEN FrameLoop_partial(n, frame_size, hop_size, start + hop_size,
                           Append(frames, [start |-> start,
                                           len |-> Min(start + frame_size, n) - start]))
    ELSE frames

\* the while loop of frame_audio; a frame is the slice [start, start + len)
RECURSIVE FrameLoop(_, _, _, _, _)
FrameLoop(n, frame_size, hop_size, start, frames) ==
    IF start + frame_size <= n
    THEN LET end == Min(start + frame_size, n)
         IN  FrameLoop(n, frame_size, hop_size, start + hop_size,
                       Append(frames, [start |-> start, len |-> end - start]))
    ELSE frames

frame_audio(clip, frame_size, hop_size) ==
    IF frame_size = 0 \/ hop_size = 0 \/ clip.len < frame_size
    THEN <<>>
    ELSE FrameLoop(clip.len, frame_size, hop_size, 0, <<>>)

\* audio[start..end].to_vec()
FrameSamples(audio, frame) ==
    SubSeq(audio, frame.start + 1, frame.start + frame.len)

\* the frames of a buffer given by its samples
FramesFrom(audio, frames) ==
    [k \in 1..Len(frames) |-> FrameSamples(audio, frames[k])]

frame_audio_samples(audio, frame_size, hop_size) ==
    FramesFrom(audio, frame_audio([len |-> Len(audio)], frame_size, hop_size))

\* an f64 that may be NaN: the value in thousandths, or NaN
Float(v) == [nan |-> FALSE, v |-> v]

NaN == [nan |-> TRUE, v |-> 0]

\* cos(2 * PI * i / d) in thousandths, for the d the frames of the model have;
\* i / 0 is 0.0 / 0.0 when i = 0, and the cosine of NaN is NaN
CosTurn(i, d) ==
    CASE d = 0 -> NaN
      [] d = 1 -> Float(1000)
      [] d = 2 -> Float(IF i % 2 = 0 THEN 1000 ELSE -1000)
      [] d = 3 -> Float(IF i % 3 = 0 THEN 1000 ELSE -500)
      [] d = 4 -> Float(CASE i % 4 = 0 -> 1000 [] i % 4 = 2 -> -1000 [] OTHER -> 0)
      [] d = 5 -> Float(CASE i % 5 = 0 -> 1000 [] i % 5 \in {1, 4} -> 309 [] OTHER -> -809)

\* 0.54 - 0.46 * cosine
WindowOf(cosine) ==
    IF cosine.nan THEN NaN ELSE Float(540 - Div(460 * cosine.v, One))

\* x * window
Times(x, window) ==
    IF window.nan THEN NaN ELSE Float(Div(x * window.v, One))

apply_hamming_window(audio) ==
    IF Len(audio) = 0 THEN <<>>
    ELSE [i \in 1..Len(audio) |->
             Times(audio[i], WindowOf(CosTurn(i - 1, Len(audio) - 1)))]

----------------------------------------------------------------------------
(* Clip content: what apply_hamming_window, calculate_rms, zero_crossing_rate *)
(* and compute_fft yield for the k-th frame (k from 0) of a clip             *)

Textures == {"silence", "tone", "speech", "noise", "gappy", "sparse"}

Pick(s, k) == s[(k % Len(s)) + 1]

\* the sign test with > 0.0
Crosses_strict(a, b) == (a > 0) # (b > 0)

\* (w[0] >= 0.0) != (w[1] >= 0.0)
Crosses(a, b) == (a >= 0) # (b >= 0)

\* windows(2).filter(...).count(), from the pair at i (1-based) on
RECURSIVE CountCrossings(_, _)
CountCrossings(audio, i) ==
    IF i >= Len(audio) THEN 0
    ELSE (IF Crosses(audio[i], audio[i + 1]) THEN 1 ELSE 0)
         + CountCrossings(audio, i + 1)

\* the rate in thousandths
zero_crossing_rate(audio) ==
    IF Len(audio) < 2 THEN 0
    ELSE (CountCrossings(audio, 1) * One) \div (Len(audio) - 1)

\* calculate_rms(&windowed), units of 1e-4
WindowedRms(clip, k) ==
    CASE clip.tex = "silence" -> 0
      [] clip.tex = "tone"    -> 3000
      [] clip.tex = "speech"  -> Pick(<<500, 3000, 1200, 4000, 800, 2500>>, k)
      [] clip.tex = "noise"   -> Pick(<<2, 12000>>, k)
      [] clip.tex = "gappy"   -> Pick(<<500, 0, 1200, 0, 2500, 0, 4000>>, k)
      [] clip.tex = "sparse"  -> Pick(<<800, 0, 0, 1500, 0, 0, 0, 0>>, k)

\* zero_crossing_rate(&windowed), thousandths
WindowedZcr(clip, k) ==
    CASE clip.tex = "silence" -> 0
      [] clip.tex = "tone"    -> 100
      [] clip.tex = "speech"  -> Pick(<<50, 300, 120, 400, 80, 250>>, k)
      [] clip.tex = "noise"   -> Pick(<<10, 900, 500>>, k)
      [] clip.tex = "gappy"   -> Pick(<<50, 0, 120>>, k)
      [] clip.tex = "sparse"  -> Pick(<<60, 0, 0, 200>>, k)

PeakBin(clip, k) ==
    CASE clip.tex = "silence" -> 0
      [] clip.tex = "tone"    -> 10
      [] clip.tex = "speech"  -> Pick(<<10, 13, 9, 15, 11, 14>>, k)
      [] clip.tex = "noise"   -> Pick(<<2, 70, 5, 60, 1>>, k)
      [] clip.tex = "gappy"   -> Pick(<<10, 0, 30, 0, 12>>, k)
      [] clip.tex = "sparse"  -> Pick(<<10, 0, 0, 40>>, k)

SideBin(clip, k) ==
    CASE clip.tex = "speech"  -> PeakBin(clip, k) + Pick(<<2, 5, 1, 7, 3, 6>>, k)
      [] clip.tex = "noise"   -> PeakBin(clip, k) + Pick(<<1, 9, 3>>, k)
      [] OTHER                -> PeakBin(clip, k)

\* |X[j]| of the transform of the k-th windowed frame
BinMagnitude(clip, k, j) ==
    IF WindowedRms(clip, k) = 0 THEN 0
    ELSE IF j = PeakBin(clip, k) THEN 1000
    ELSE IF j = SideBin(clip, k) THEN 500
    ELSE 0

PI == 314

\* arg X[j] of the transform of the k-th windowed frame, centiradians in (-PI, PI]
BinPhase(clip, k, j) ==
    CASE clip.tex = "silence" -> 0
      [] clip.tex = "tone"    -> 300
      [] clip.tex = "speech"  -> (((k * k * 37 + j * 101 + k * j * 13) * 17) % 628) - 313
      [] clip.tex = "noise"   -> IF (k + j) % 2 = 0 THEN 300 ELSE 0
      [] clip.tex = "gappy"   -> ((k * 5 + j) % 7) - 3
      [] clip.tex = "sparse"  -> ((k * 11 + j * 3) % 200) - 100

----------------------------------------------------------------------------
(* utils/fft.rs *)

\* the transform of the k-th windowed frame: n complex bins, or an error
compute_fft(clip, k, frame) ==
    IF frame.len = 0
    THEN Err(invalid_input("Cannot compute FFT of empty data", 0))
    ELSE [ok |-> TRUE, n |-> frame.len, clip |-> clip, k |-> k]

\* n_positive = fft_result.len() / 2
magnitude_spectrum_short(fft_result) ==
    IF fft_result.n = 0 THEN <<>>
    ELSE [j \in 1..(fft_result.n \div 2) |->
             BinMagnitude(fft_result.clip, fft_result.k, j - 1)]

magnitude_spectrum(fft_result) ==
    IF fft_result.n = 0 THEN <<>>
    ELSE LET n_positive == fft_result.n \div 2 + 1
         IN  [j \in 1..n_positive |->
                 BinMagnitude(fft_result.clip, fft_result.k, j - 1)]

phase_spectrum(fft_result) ==
    IF fft_result.n = 0 THEN <<>>
    ELSE LET n_positive == fft_result.n \div 2 + 1
         IN  [j \in 1..n_positive |->
                 BinPhase(fft_result.clip, fft_result.k, j - 1)]

power_spectrum(fft_result) ==
    IF fft_result.n = 0 THEN <<>>
    ELSE LET n_positive == fft_result.n \div 2 + 1
         IN  [j \in 1..n_positive |->
                 (BinMagnitude(fft_result.clip, fft_result.k, j - 1)
                  * BinMagnitude(fft_result.clip, fft_result.k, j - 1)) \div One]

frequency_bins(n_samples, sample_rate) ==
    IF n_samples = 0 THEN <<>>
    ELSE LET n_positive == n_samples \div 2 + 1
         IN  [j \in 1..n_positive |-> ((j - 1) * sample_rate) \div n_samples]

\* the total taken over all magnitudes, not over the shared prefix
spectral_centroid_whole(magnitudes, frequencies) ==
    IF Len(magnitudes) = 0 \/ Len(frequencies) = 0 THEN 0
    ELSE IF Sum(magnitudes) < 1 THEN 0
    ELSE Sum([i \in 1..Min(Len(magnitudes), Len(frequencies)) |->
                 magnitudes[i] * frequencies[i]]) \div Sum(magnitudes)

\* f64::EPSILON rounds up to one unit of magnitude
spectral_centroid(magnitudes, frequencies) ==
    IF Len(magnitudes) = 0 \/ Len(frequencies) = 0 THEN 0
    ELSE LET min_len == Min(Len(magnitudes), Len(frequencies))
             \* zip(...).map(|(m, f)| m * f).sum()
             weighted_sum ==
                 Sum([i \in 1..min_len |-> magnitudes[i] * frequencies[i]])
             total_magnitude == Sum(SubSeq(magnitudes, 1, min_len))
         IN  IF total_magnitude < 1 THEN 0
             ELSE weighted_sum \div total_magnitude

spectral_bandwidth(magnitudes, frequencies, centroid) ==
    IF Len(magnitudes) = 0 \/ Len(frequencies) = 0 THEN 0
    ELSE LET min_len == Min(Len(magnitudes), Len(frequencies))
             \* zip(...).map(|(m, f)| m * (f - centroid).powi(2)).sum()
             weighted_variance ==
                 Sum([i \in 1..min_len |-> magnitudes[i] * (frequencies[i] - centroid)
                                                        * (frequencies[i] - centroid)])
             total_magnitude == Sum(SubSeq(magnitudes, 1, min_len))
         IN  IF total_magnitude < 1 THEN 0
             ELSE Sqrt(weighted_variance \div total_magnitude)

\* the loop with cumulative > target_energy
RECURSIVE RolloffLoop_strict(_, _, _, _)
RolloffLoop_strict(magnitudes, target_energy, cumulative, i) ==
    IF i > Len(magnitudes) THEN Len(magnitudes) - 1
    ELSE IF (cumulative + magnitudes[i]) * One > target_energy THEN i - 1
    ELSE RolloffLoop_strict(magnitudes, target_energy, cumulative + magnitudes[i], i + 1)

\* the enumerate loop of spectral_rolloff, from bin i (1-based) on;
\* target_energy is in thousandths of the unit of the magnitudes
RECURSIVE RolloffLoop(_, _, _, _)
RolloffLoop(magnitudes, target_energy, cumulative, i) ==
    IF i > Len(magnitudes) THEN Len(magnitudes) - 1
    ELSE IF (cumulative + magnitudes[i]) * One >= target_energy THEN i - 1
    ELSE RolloffLoop(magnitudes, target_energy, cumulative + magnitudes[i], i + 1)

\* rolloff_percent in thousandths; total_energy * rolloff_percent.clamp(0.0, 1.0)
\* is kept exact, in thousandths of the unit of the magnitudes
spectral_rolloff(magnitudes, rolloff_percent) ==
    IF Len(magnitudes) = 0 THEN 0
    ELSE RolloffLoop(magnitudes, Sum(magnitudes) * Clamp(rolloff_percent, 0, One), 0, 1)

----------------------------------------------------------------------------
(* sensors/result.rs *)

EmptyMap == [key \in {} |-> ""]

SensorResult_new(sensor_name, passed, value, threshold, reason, detail) ==
    [sensor_name |-> sensor_name, passed |-> passed, value |-> value,
     threshold |-> threshold, reason |-> reason, detail |-> detail,
     metadata |-> EmptyMap]

\* HashMap::insert that keeps the first value of a key
\* Default::default()
SensorResult_default == SensorResult_new("", None, 0, 0, None, None)

insert_keep(map, key, value) ==
    [x \in DOMAIN map \cup {key} |-> IF x \in DOMAIN map THEN map[x] ELSE value]

\* HashMap::insert
insert(map, key, value) ==
    [x \in DOMAIN map \cup {key} |-> IF x = key THEN value ELSE map[x]]

add_metadata(self, key, value) ==
    [self EXCEPT !.metadata = insert(self.metadata, key, value)]

\* self.passed.unwrap_or(true)
is_pass_lenient(self) == IF self.passed = None THEN TRUE ELSE self.passed[1]

\* self.passed.unwrap_or(false)
is_pass(self) == IF self.passed = None THEN FALSE ELSE self.passed[1]

\* matches!(self.passed, Some(false))
is_fail(self) == self.passed = Some(FALSE)

\* format!("... (score: {:.2})", score): the text and the score in hundredths
ScoreDetail(text, score) == [text |-> text, score |-> (score + 5) \div 10]

\* format!("Input validation failed: {}", e)
ValidationDetail(e) == [text |-> "Input validation failed", err |-> e]

----------------------------------------------------------------------------
(* Detector parameters (sensors/vacuum.rs, phase.rs, articulation.rs) *)

Kinds == {"vacuum", "phase", "articulation"}

DEFAULT_THRESHOLD(kind) ==
    CASE kind = "vacuum" -> 700
      [] kind = "phase" -> 650
      [] kind = "articulation" -> 600

FRAME_SIZE(kind) ==
    CASE kind = "vacuum" -> 400
      [] kind = "phase" -> 512
      [] kind = "articulation" -> 320

HOP_SIZE(kind) ==
    CASE kind = "vacuum" -> 160
      [] kind = "phase" -> 128
      [] kind = "articulation" -> 160

SensorName(kind) ==
    CASE kind = "vacuum" -> "vacuum_sensor"
      [] kind = "phase" -> "phase_sensor"
      [] kind = "articulation" -> "articulation_sensor"

AnomalyReason(kind) ==
    CASE kind = "vacuum" -> "sfm_anomaly"
      [] kind = "phase" -> "phase_anomaly"
      [] kind = "articulation" -> "articulation_anomaly"

PassText(kind) ==
    CASE kind = "vacuum" -> "Source-filter model analysis passed"
      [] kind = "phase" -> "Phase coherence analysis passed"
      [] kind = "articulation" -> "Articulation pattern analysis passed"

FailText(kind) ==
    CASE kind = "vacuum" -> "Potential synthetic audio detected"
      [] kind = "phase" -> "Abnormal phase patterns detected"
      [] kind = "articulation" -> "Unnatural articulation patterns detected"

\* (sample_rate as usize * FRAME_SIZE) / 16000
ScaledFrameSize(kind, sample_rate) == (sample_rate * FRAME_SIZE(kind)) \div 16000

\* the hop size with the division by 16000 taken before the multiplication
ScaledHopSize_khz(kind, sample_rate) == (sample_rate \div 16000) * HOP_SIZE(kind)

ScaledHopSize(kind, sample_rate) == (sample_rate * HOP_SIZE(kind)) \div 16000

\* no frame counts as silent
IsSilent_never(rms) == rms < 0

\* rms < 1e-6: below one unit of 1e-4
IsSilent(rms) == rms < 1

----------------------------------------------------------------------------
(* Statistics shared by the detectors *)

\* (x / bound).min(1.0) * weight
Scaled(x, bound, weight) == (Min((x * One) \div bound, One) * weight) \div One

\* iter().sum::<f64>() / len as f64
MeanOf(values) == Div(Sum(values), Len(values))

\* map(|x| (x - mean).powi(2)).sum()
SumSqDev(values, mean) ==
    Sum([i \in 1..Len(values) |-> (values[i] - mean) * (values[i] - mean)])

\* the divisor N in place of N - 1
SampleStd_population(values) == Sqrt(SumSqDev(values, MeanOf(values)) \div Len(values))

\* sqrt of the sample variance (divisor N - 1)
SampleStd(values) == Sqrt(SumSqDev(values, MeanOf(values)) \div (Len(values) - 1))

\* population variance (divisor N)
PopulationVariance(values) == SumSqDev(values, MeanOf(values)) \div Len(values)

PopulationStd(values) == Sqrt(PopulationVariance(values))

Field(features, f) == [i \in 1..Len(features) |-> features[i][f]]

\* |features[i].centroid - features[i-1].centroid| for i in 1..len
CentroidDiffs(features) ==
    [i \in 1..(Len(features) - 1) |->
        Abs(features[i + 1].centroid - features[i].centroid)]

----------------------------------------------------------------------------
(* sensors/vacuum.rs *)

\* centroid and bandwidth of one magnitude spectrum
SpectralFeaturesAt(magnitudes, freqs, centroid, rms) ==
    [centroid |-> centroid,
     bandwidth |-> spectral_bandwidth(magnitudes, freqs, centroid),
     rms |-> rms]

\* freqs[i] = i as f64 * freq_resolution, freq_resolution = sample_rate / frame_size
VacuumFreqs(n_bins, sample_rate, frame_size) ==
    [j \in 1..n_bins |-> ((j - 1) * sample_rate) \div frame_size]

SpectralFeaturesOf(magnitudes, freqs, rms) ==
    SpectralFeaturesAt(magnitudes, freqs, spectral_centroid(magnitudes, freqs), rms)

\* one iteration of the frame loop of compute_sfm_score, after windowing
VacuumPush(spectral_features, rms, fft_result, sample_rate, frame_size) ==
    IF IsSilent(rms) THEN spectral_features
    ELSE IF fft_result.ok
    THEN Append(spectral_features,
                SpectralFeaturesOf(
                    magnitude_spectrum(fft_result),
                    VacuumFreqs(fft_result.n \div 2 + 1, sample_rate, frame_size),
                    rms))
    ELSE spectral_features

VacuumFrame(clip, sample_rate, frame, k, spectral_features) ==
    VacuumPush(spectral_features, WindowedRms(clip, k), compute_fft(clip, k, frame),
               sample_rate, ScaledFrameSize("vacuum", sample_rate))

\* the frame loop of compute_sfm_score, from frame k (0-based) on
RECURSIVE VacuumFeatureLoop(_, _, _, _, _)
VacuumFeatureLoop(clip, sample_rate, frames, k, spectral_features) ==
    IF k >= Len(frames) THEN spectral_features
    ELSE VacuumFeatureLoop(clip, sample_rate, frames, k + 1,
             VacuumFrame(clip, sample_rate, frames[k + 1], k, spectral_features))

StabilityOfStd(std_dev, min_var, max_var) ==
    IF std_dev < min_var THEN Scaled(std_dev, min_var, One)
    ELSE IF std_dev > max_var THEN Scaled(max_var, std_dev, One)
    ELSE One

compute_stability_score(values, min_var, max_var) ==
    IF Len(values) < 2 THEN 500
    ELSE StabilityOfStd(SampleStd(values), min_var, max_var)

\* max_expected_diff = 200.0
SmoothnessOfMean(mean_diff) ==
    IF mean_diff > 200 THEN Scaled(200, mean_diff, One) ELSE One

compute_smoothness_score(features) ==
    IF Len(features) < 2 THEN 500
    ELSE IF Len(features) - 1 = 0 THEN 500
    ELSE SmoothnessOfMean(MeanOf(CentroidDiffs(features)))

\* weights of 0.5 each and no clamp
analyze_patterns_unclamped(features) ==
    IF Len(features) = 0 THEN 500
    ELSE (500 * compute_stability_score(Field(features, "centroid"), 50, 500)
          + 500 * compute_stability_score(Field(features, "bandwidth"), 20, 200)
          + 500 * compute_stability_score(Field(features, "rms"), 100, 5000)
          + 500 * compute_smoothness_score(features)) \div One

\* RMS is in units of 1e-4: 0.01 is 100 and 0.5 is 5000
analyze_patterns(features) ==
    IF Len(features) = 0 THEN 500
    ELSE LET centroid_score ==
                 compute_stability_score(Field(features, "centroid"), 50, 500)
             bandwidth_score ==
                 compute_stability_score(Field(features, "bandwidth"), 20, 200)
             energy_score ==
                 compute_stability_score(Field(features, "rms"), 100, 5000)
             smoothness_score == compute_smoothness_score(features)
             combined == (250 * centroid_score + 250 * bandwidth_score
                          + 250 * energy_score + 250 * smoothness_score) \div One
         IN  Clamp(combined, 0, One)

\* the neutral score only below two spectral features
SfmScoreOf_two(frames, spectral_features) ==
    IF Len(frames) = 0 THEN 500
    ELSE IF Len(spectral_features) < 2 THEN 500
    ELSE analyze_patterns(spectral_features)

\* the end of compute_sfm_score, from the frames and the features of the call
SfmScoreOf(frames, spectral_features) ==
    IF Len(frames) = 0 THEN 500
    ELSE IF Len(spectral_features) < 3 THEN 500
    ELSE analyze_patterns(spectral_features)

VacuumFrames(clip, sample_rate) ==
    frame_audio(clip, ScaledFrameSize("vacuum", sample_rate),
                ScaledHopSize("vacuum", sample_rate))

VacuumScoreOver(clip, sample_rate, frames) ==
    SfmScoreOf(frames, VacuumFeatureLoop(clip, sample_rate, frames, 0, <<>>))

compute_sfm_score(clip, sample_rate) ==
    VacuumScoreOver(clip, sample_rate, VacuumFrames(clip, sample_rate))

----------------------------------------------------------------------------
(* sensors/phase.rs *)

\* the % of f64: the remainder takes the sign of the dividend
Rem(a, b) == IF a >= 0 THEN a % b ELSE -((-a) % b)

WrapRemainder_upper_only(wrapped, two_pi) ==
    IF wrapped > PI THEN wrapped - two_pi ELSE wrapped

WrapRemainder(wrapped, two_pi) ==
    IF wrapped > PI THEN wrapped - two_pi
    ELSE IF wrapped < -PI THEN wrapped + two_pi
    ELSE wrapped

wrap_phase(phase) == WrapRemainder(Rem(phase, 2 * PI), 2 * PI)

\* one iteration of the frame loop of compute_phase_coherence_score
PhasePush(phase_spectra, rms, fft_result) ==
    IF IsSilent(rms) THEN phase_spectra
    ELSE IF fft_result.ok THEN Append(phase_spectra, phase_spectrum(fft_result))
    ELSE phase_spectra

PhaseFrame(clip, sample_rate, frame, k, phase_spectra) ==
    PhasePush(phase_spectra, WindowedRms(clip, k), compute_fft(clip, k, frame))

\* the frame loop of compute_phase_coherence_score, from frame k (0-based) on
RECURSIVE PhaseSpectraLoop(_, _, _, _, _)
PhaseSpectraLoop(clip, sample_rate, frames, k, phase_spectra) ==
    IF k >= Len(frames) THEN phase_spectra
    ELSE PhaseSpectraLoop(clip, sample_rate, frames, k + 1,
             PhaseFrame(clip, sample_rate, frames[k + 1], k, phase_spectra))

\* variance of the wrapped phase differences of one pair of adjacent frames
PairVariance(prev, curr) ==
    PopulationVariance([j \in 1..Min(Len(prev), Len(curr)) |->
                           wrap_phase(curr[j] - prev[j])])

\* the pair loop of compute_cross_frame_coherence, from index i (0-based) on
RECURSIVE CoherenceLoop(_, _, _)
CoherenceLoop(phase_spectra, i, coherence_values) ==
    IF i >= Len(phase_spectra) THEN coherence_values
    ELSE IF Min(Len(phase_spectra[i]), Len(phase_spectra[i + 1])) < 10
    THEN CoherenceLoop(phase_spectra, i + 1, coherence_values)
    ELSE CoherenceLoop(phase_spectra, i + 1,
             Append(coherence_values,
                    PairVariance(phase_spectra[i], phase_spectra[i + 1])))

\* variances are in centiradians squared: 0.3 is 3000 and 5.0 is 50000
CoherenceOfMean(mean_coherence) ==
    IF mean_coherence < 3000 THEN Scaled(mean_coherence, 3000, 500)
    ELSE IF mean_coherence > 50000 THEN Scaled(50000, mean_coherence, 700)
    ELSE One

CoherenceOfValues(coherence_values) ==
    IF Len(coherence_values) = 0 THEN 500
    ELSE CoherenceOfMean(MeanOf(coherence_values))

compute_cross_frame_coherence(phase_spectra) ==
    IF Len(phase_spectra) < 2 THEN 500
    ELSE CoherenceOfValues(CoherenceLoop(phase_spectra, 1, <<>>))

\* mean absolute second difference of the phases of three consecutive frames
TripleAcceleration(prev2, prev1, curr) ==
    MeanOf([j \in 1..Min(Min(Len(prev2), Len(prev1)), Len(curr)) |->
               Abs(wrap_phase(curr[j] - prev1[j]) - wrap_phase(prev1[j] - prev2[j]))])

\* the triple loop of compute_phase_derivative_score, from index i (0-based) on
RECURSIVE DerivativeLoop(_, _, _)
DerivativeLoop(phase_spectra, i, continuity_scores) ==
    IF i >= Len(phase_spectra) THEN continuity_scores
    ELSE IF Min(Min(Len(phase_spectra[i - 1]), Len(phase_spectra[i])),
                Len(phase_spectra[i + 1])) < 10
    THEN DerivativeLoop(phase_spectra, i + 1, continuity_scores)
    ELSE DerivativeLoop(phase_spectra, i + 1,
             Append(continuity_scores,
                    TripleAcceleration(phase_spectra[i - 1], phase_spectra[i],
                                       phase_spectra[i + 1])))

\* accelerations are in centiradians: 0.1 is 10 and 2.0 is 200
DerivativeOfMean(mean_continuity) ==
    IF mean_continuity < 10 THEN Scaled(mean_continuity, 10, 500)
    ELSE IF mean_continuity > 200 THEN Scaled(200, mean_continuity, 600)
    ELSE One

DerivativeOfValues(continuity_scores) ==
    IF Len(continuity_scores) = 0 THEN 500
    ELSE DerivativeOfMean(MeanOf(continuity_scores))

\* the best score, not the neutral one, below three frames
compute_phase_derivative_score_one(phase_spectra) ==
    IF Len(phase_spectra) < 3 THEN One
    ELSE DerivativeOfValues(DerivativeLoop(phase_spectra, 2, <<>>))

compute_phase_derivative_score(phase_spectra) ==
    IF Len(phase_spectra) < 3 THEN 500
    ELSE DerivativeOfValues(DerivativeLoop(phase_spectra, 2, <<>>))

\* the phases of the upper third of the bins, normalized to [0, 1] (thousandths)
NormalizedHighPhases(phases, high_freq_start) ==
    [j \in 1..(Len(phases) - high_freq_start) |->
        ((wrap_phase(phases[high_freq_start + j]) + PI) * One) \div (2 * PI)]

\* |mean of the normalized high-frequency phases - 0.5|
PhaseDeviation(phases) ==
    Abs(MeanOf(NormalizedHighPhases(phases, (Len(phases) * 2) \div 3)) - 500)

\* the frame loop of compute_phase_randomness_score, from index i (1-based) on
RECURSIVE RandomnessLoop(_, _, _)
RandomnessLoop(phase_spectra, i, phase_distributions) ==
    IF i > Len(phase_spectra) THEN phase_distributions
    ELSE IF Len(phase_spectra[i]) < 20
    THEN RandomnessLoop(phase_spectra, i + 1, phase_distributions)
    ELSE RandomnessLoop(phase_spectra, i + 1,
             Append(phase_distributions, PhaseDeviation(phase_spectra[i])))

RandomnessOfMean(mean_deviation) ==
    IF mean_deviation > 300 THEN Scaled(300, mean_deviation, 700) ELSE One

RandomnessOfValues(phase_distributions) ==
    IF Len(phase_distributions) = 0 THEN 500
    ELSE RandomnessOfMean(MeanOf(phase_distributions))

compute_phase_randomness_score(phase_spectra) ==
    IF Len(phase_spectra) = 0 THEN 500
    ELSE RandomnessOfValues(RandomnessLoop(phase_spectra, 1, <<>>))

\* the end of compute_phase_coherence_score, from the frames and spectra of the call
PhaseScoreOf(frames, phase_spectra) ==
    IF Len(frames) < 2 THEN 500
    ELSE IF Len(phase_spectra) < 2 THEN 500
    ELSE LET coherence_score == compute_cross_frame_coherence(phase_spectra)
             derivative_score == compute_phase_derivative_score(phase_spectra)
             randomness_score == compute_phase_randomness_score(phase_spectra)
             combined == (400 * coherence_score + 300 * derivative_score
                          + 300 * randomness_score) \div One
         IN  Clamp(combined, 0, One)

PhaseFrames(clip, sample_rate) ==
    frame_audio(clip, ScaledFrameSize("phase", sample_rate),
                ScaledHopSize("phase", sample_rate))

PhaseScoreOver(clip, sample_rate, frames) ==
    PhaseScoreOf(frames, PhaseSpectraLoop(clip, sample_rate, frames, 0, <<>>))

compute_phase_coherence_score(clip, sample_rate) ==
    PhaseScoreOver(clip, sample_rate, PhaseFrames(clip, sample_rate))

----------------------------------------------------------------------------
(* sensors/articulation.rs *)

\* placeholder, updated in batch by update_spectral_flux
compute_spectral_flux(magnitudes) == 0

\* rolloff_idx < freqs.len() ? freqs[rolloff_idx] : freqs.last() or 0.0
RolloffFreq(freqs, rolloff_idx) ==
    IF rolloff_idx < Len(freqs) THEN freqs[rolloff_idx + 1]
    ELSE IF Len(freqs) > 0 THEN freqs[Len(freqs)] ELSE 0

FrameFeaturesOf(rms, zcr, magnitudes, freqs) ==
    [rms |-> rms, zcr |-> zcr,
     centroid |-> spectral_centroid(magnitudes, freqs),
     rolloff_freq |-> RolloffFreq(freqs, spectral_rolloff(magnitudes, 850)),
     spectral_flux |-> compute_spectral_flux(magnitudes),
     magnitudes |-> magnitudes]

\* one iteration of the frame loop of compute_articulation_score
ArticulationPush(frame_features, rms, zcr, fft_result, sample_rate, frame_size) ==
    IF IsSilent(rms) THEN frame_features
    ELSE IF fft_result.ok
    THEN Append(frame_features,
                FrameFeaturesOf(rms, zcr, magnitude_spectrum(fft_result),
                                frequency_bins(frame_size, sample_rate)))
    ELSE frame_features

ArticulationFrame(clip, sample_rate, frame, k, frame_features) ==
    ArticulationPush(frame_features, WindowedRms(clip, k), WindowedZcr(clip, k),
                     compute_fft(clip, k, frame), sample_rate,
                     ScaledFrameSize("articulation", sample_rate))

\* the frame loop of compute_articulation_score, from frame k (0-based) on
RECURSIVE ArticulationFeatureLoop(_, _, _, _, _)
ArticulationFeatureLoop(clip, sample_rate, frames, k, frame_features) ==
    IF k >= Len(frames) THEN frame_features
    ELSE ArticulationFeatureLoop(clip, sample_rate, frames, k + 1,
             ArticulationFrame(clip, sample_rate, frames[k + 1], k, frame_features))

\* Euclidean distance of two magnitude spectra over their shared bins
Flux(curr, prev) ==
    Sqrt(Sum([j \in 1..Min(Len(curr), Len(prev)) |->
                 (curr[j] - prev[j]) * (curr[j] - prev[j])]))

update_spectral_flux(features) ==
    [i \in 1..Len(features) |->
        IF i = 1 THEN features[i]
        ELSE [features[i] EXCEPT
                 !.spectral_flux = Flux(features[i].magnitudes, features[i - 1].magnitudes)]]

TransitionOfStd(std_rate) ==
    IF std_rate < 50 THEN Scaled(std_rate, 50, 600)
    ELSE IF std_rate > 500 THEN Scaled(500, std_rate, 700)
    ELSE One

compute_transition_score(features) ==
    IF Len(features) < 2 THEN 500
    ELSE IF Len(features) - 1 = 0 THEN 500
    ELSE TransitionOfStd(PopulationStd(CentroidDiffs(features)))

\* fold(init, f64::max) and fold(init, f64::min)
RECURSIVE FoldMax(_, _, _)
FoldMax(values, i, acc) ==
    IF i > Len(values) THEN acc ELSE FoldMax(values, i + 1, Max(acc, values[i]))

RECURSIVE FoldMin(_, _, _)
FoldMin(values, i, acc) ==
    IF i > Len(values) THEN acc ELSE FoldMin(values, i + 1, Min(acc, values[i]))

F64_MAX == 2147483647

\* decibels in ten steps per decade of amplitude ratio: 10^(d/20) in thousandths
DbTable ==
    <<1122, 1259, 1413, 1585, 1778, 1995, 2239, 2512, 2818, 3162,
      3548, 3981, 4467, 5012, 5623, 6310, 7079, 7943, 8913>>

\* floor(20 * log10(ratio)) for a ratio >= 1 given in thousandths
RECURSIVE Db(_)
Db(ratio) ==
    IF ratio >= 10000 THEN 20 + Db(ratio \div 10)
    ELSE Cardinality({d \in 1..Len(DbTable) : DbTable[d] <= ratio})

\* 20 * log10(max_rms / min_rms), whole decibels; log10 of a ratio below 1 is negative
DynamicRangeDb(max_rms, min_rms) ==
    IF max_rms >= min_rms THEN Db((max_rms * One) \div min_rms)
    ELSE -Db((min_rms \div Max(max_rms, 1)) * One)

DynamicsOfRange(dynamic_range_db) ==
    IF dynamic_range_db < 10 THEN Scaled(dynamic_range_db, 10, 500)
    ELSE IF dynamic_range_db > 60 THEN Scaled(60, dynamic_range_db, 800)
    ELSE One

\* RMS is in units of 1e-4: max_rms < 1e-8 is max_rms < 1, and
\* min_rms.max(1e-8) keeps a min_rms of at least one unit
DynamicsOfExtremes(max_rms, min_rms) ==
    IF max_rms < 1 THEN 500
    ELSE DynamicsOfRange(DynamicRangeDb(max_rms, Max(min_rms, 1)))

\* x > 1e-8 is x >= 1 in units of 1e-4
DynamicsOfRms(rms_values) ==
    DynamicsOfExtremes(FoldMax(rms_values, 1, 0),
                       FoldMin(SelectSeq(rms_values, LAMBDA x : x >= 1), 1, F64_MAX))

compute_dynamics_score(features) ==
    IF Len(features) < 3 THEN 500
    ELSE DynamicsOfRms(Field(features, "rms"))

ZcrOfStd(std_zcr) ==
    IF std_zcr < 50 THEN Scaled(std_zcr, 50, 600) ELSE One

compute_zcr_pattern_score(features) ==
    IF Len(features) = 0 THEN 500
    ELSE ZcrOfStd(PopulationStd(Field(features, "zcr")))

\* std_flux < mean_flux * 0.1 and std_flux > mean_flux * 3.0, without fractions
FluxOfStats(mean_flux, std_flux) ==
    IF std_flux * 10 < mean_flux THEN 600
    ELSE IF std_flux > mean_flux * 3 THEN 700
    ELSE One

FluxOfValues(flux_values) ==
    IF Len(flux_values) = 0 THEN 500
    ELSE FluxOfStats(MeanOf(flux_values), PopulationStd(flux_values))

\* features.iter().skip(1).map(|f| f.spectral_flux)
FluxValues(features) ==
    [i \in 1..(Len(features) - 1) |-> features[i + 1].spectral_flux]

compute_spectral_flux_pattern_score(features) ==
    IF Len(features) < 2 THEN 500
    ELSE FluxOfValues(FluxValues(features))

\* the scores and their combination, after update_spectral_flux
ArticulationCombined(frame_features) ==
    LET transition_score == compute_transition_score(frame_features)
        dynamics_score == compute_dynamics_score(frame_features)
        zcr_pattern_score == compute_zcr_pattern_score(frame_features)
        spectral_flux_score == compute_spectral_flux_pattern_score(frame_features)
        combined == (300 * transition_score + 250 * dynamics_score
                     + 200 * zcr_pattern_score + 250 * spectral_flux_score) \div One
    IN  Clamp(combined, 0, One)

\* the neutral score only below four raw frames
ArticulationScoreOf_four(frames, frame_features) ==
    IF Len(frames) < 4 THEN 500
    ELSE IF Len(frame_features) < 3 THEN 500
    ELSE ArticulationCombined(update_spectral_flux(frame_features))

\* the end of compute_articulation_score, from the frames and features of the call
ArticulationScoreOf(frames, frame_features) ==
    IF Len(frames) < 5 THEN 500
    ELSE IF Len(frame_features) < 3 THEN 500
    ELSE ArticulationCombined(update_spectral_flux(frame_features))

ArticulationFrames(clip, sample_rate) ==
    frame_audio(clip, ScaledFrameSize("articulation", sample_rate),
                ScaledHopSize("articulation", sample_rate))

ArticulationScoreOver(clip, sample_rate, frames) ==
    ArticulationScoreOf(frames,
                        ArticulationFeatureLoop(clip, sample_rate, frames, 0, <<>>))

compute_articulation_score(clip, sample_rate) ==
    ArticulationScoreOver(clip, sample_rate, ArticulationFrames(clip, sample_rate))

----------------------------------------------------------------------------
(* Inputs *)

Insts == {"s1", "s2"}

\* the instance the single caller of Spec drives
SeqInsts == {"s1"}

ThresholdArgs == {None, Some(-500), Some(500), Some(1500)}

SetterArgs == {1500}

Rates == {100, 8000, 16000}

ClipLen == 1200

Clip(len, bad, tex) == [len |-> len, bad |-> bad, tex |-> tex]

\* at 16 kHz: four frames of the articulation detector, three of the others
FewLen == 800

Clips ==
    {Clip(7, {}, "tone"), Clip(8, {}, "tone"), Clip(FewLen, {}, "speech"),
     Clip(FewLen, {}, "sparse"),
     Clip(ClipLen, {<<5, "nan">>}, "tone"), Clip(ClipLen, {<<ClipLen - 1, "inf">>}, "speech")}
    \cup {Clip(ClipLen, {}, tex) : tex \in Textures}

MaxGap == 2

\* the inputs of SpecValidate: rates around both limits, short buffers with
\* NaN and infinite samples at some of their indices
WideRates == {0, 100, 7999, 8000, 8001, 16000, 44100, 95999, 96000, 96001, 200000}

MaxShortLen == 9

BadMarks == {<<1, "nan">>, <<2, "inf">>, <<7, "inf">>, <<8, "nan">>}

ShortClips ==
    {Clip(len, bad, "tone") :
        len \in {0, 3, 7, 8, MaxShortLen},
        bad \in {b \in SUBSET BadMarks : Cardinality(b) <= 2}}

\* a sample index is below the length of its buffer
WellFormed(clip) == \A b \in clip.bad : b[1] < clip.len

\* the inputs of SpecConc
Threads == {"t1", "t2"}

\* long enough for the five frames the articulation detector asks for
ConcLen == 1000

ConcClips == {Clip(7, {}, "tone"), Clip(ConcLen, {}, "gappy")}

ConcRates == {16000}

----------------------------------------------------------------------------
(* The detectors: new, the threshold setter and analyze *)

\* Option::unwrap_or
unwrap_or(opt, default) == IF opt = None THEN default ELSE opt[1]

\* new without the clamp
new_unclamped(kind, threshold) ==
    [kind |-> kind, threshold |-> unwrap_or(threshold, DEFAULT_THRESHOLD(kind)),
     name |-> SensorName(kind)]

\* VacuumSensor::new, PhaseSensor::new, ArticulationSensor::new
new(kind, threshold) ==
    LET threshold_value == unwrap_or(threshold, DEFAULT_THRESHOLD(kind))
        clamped_threshold == Clamp(threshold_value, 0, One)
    IN  [kind |-> kind, threshold |-> clamped_threshold, name |-> SensorName(kind)]

\* #[pyo3(get, set)] pub threshold: the generated setter stores the value as given
set_threshold(self, value) == [self EXCEPT !.threshold = value]

\* compute_sfm_score, compute_phase_coherence_score or compute_articulation_score
score_of(kind, clip, sample_rate) ==
    CASE kind = "vacuum" -> compute_sfm_score(clip, sample_rate)
      [] kind = "phase" -> compute_phase_coherence_score(clip, sample_rate)
      [] kind = "articulation" -> compute_articulation_score(clip, sample_rate)

\* the scores of the valid inputs of the specifications, computed once:
\* pairs <<input, score>>
ScoreMemo ==
    {<<x, score_of(x[1], x[2], x[3])>> :
        x \in {y \in (Kinds \X Clips \X Rates) \cup (Kinds \X ConcClips \X ConcRates) :
                  validate_audio_input(y[2], y[3]).ok}}

Recall(known, kind, clip, sample_rate) ==
    IF known # {} THEN (CHOOSE p \in known : TRUE)[2]
    ELSE score_of(kind, clip, sample_rate)

\* self.compute_..._score(audio_slice, sample_rate)
compute_score(kind, clip, sample_rate) ==
    Recall({p \in ScoreMemo : p[1] = <<kind, clip, sample_rate>>},
           kind, clip, sample_rate)

\* the early return built from SensorResult::default(): no verdict, no reason
ValidationFailure_default(self, e) ==
    SensorResult_new(self.name, None, 0, self.threshold, None,
                     Some(ValidationDetail(e)))

\* the early return with the verdict of the comparison 0.0 >= threshold
ValidationFailure_compared(self, e) ==
    SensorResult_new(self.name, Some(0 >= self.threshold), 0, self.threshold,
                     Some("validation_error"), Some(ValidationDetail(e)))

\* the early return of analyze on a validation error
ValidationFailure(self, e) ==
    SensorResult_new(self.name, Some(FALSE), 0, self.threshold,
                     Some("validation_error"), Some(ValidationDetail(e)))

\* the detail text of a scored result
DetailOf(kind, passed, authenticity_score) ==
    IF passed THEN ScoreDetail(PassText(kind), authenticity_score)
    ELSE ScoreDetail(FailText(kind), authenticity_score)

\* the reason code set on every scored result
Decided_always_reason(self, authenticity_score, passed) ==
    SensorResult_new(self.name, Some(passed), authenticity_score, self.threshold,
                     Some(AnomalyReason(self.kind)),
                     Some(DetailOf(self.kind, passed, authenticity_score)))

\* the result analyze builds once pass/fail is determined
Decided(self, authenticity_score, passed) ==
    SensorResult_new(self.name, Some(passed), authenticity_score, self.threshold,
                     IF ~passed THEN Some(AnomalyReason(self.kind)) ELSE None,
                     Some(DetailOf(self.kind, passed, authenticity_score)))

\* passed = authenticity_score > self.threshold
Verdict_strict(self, authenticity_score) ==
    Decided(self, authenticity_score, authenticity_score > self.threshold)

\* let passed = authenticity_score >= self.threshold
Verdict(self, authenticity_score) ==
    Decided(self, authenticity_score, authenticity_score >= self.threshold)

AnalyzeValidated(self, clip, sample_rate, validation) ==
    IF ~validation.ok THEN ValidationFailure(self, validation.err)
    ELSE Verdict(self, compute_score(self.kind, clip, sample_rate))

\* the SensorResult analyze returns
analyze(self, clip, sample_rate) ==
    AnalyzeValidated(self, clip, sample_rate, validate_audio_input(clip, sample_rate))

\* a detector that falls back to its default threshold once it has analyzed
self_after_analyze_reset(self, clip, sample_rate) ==
    [self EXCEPT !.threshold = DEFAULT_THRESHOLD(self.kind)]

\* a detector that adapts: each call raises its threshold by 0.1, up to 1.0
self_after_analyze_adaptive(self, clip, sample_rate) ==
    [self EXCEPT !.threshold = Min(@ + 100, One)]

\* analyze takes &self: the detector after the call is the detector before it
self_after_analyze(self, clip, sample_rate) == self

----------------------------------------------------------------------------
(* analyze in steps: what one call does between two points at which another *)
(* call may run                                                              *)

FramesOf(kind, clip, sample_rate) ==
    CASE kind = "vacuum" -> VacuumFrames(clip, sample_rate)
      [] kind = "phase" -> PhaseFrames(clip, sample_rate)
      [] kind = "articulation" -> ArticulationFrames(clip, sample_rate)

\* frames.is_empty(), frames.len() < 2, frames.len() < 5: the return before the loop
MinFrames(kind) ==
    CASE kind = "vacuum" -> 1
      [] kind = "phase" -> 2
      [] kind = "articulation" -> 5

\* one iteration of the frame loop on the call's buffer
FrameStep(kind, clip, sample_rate, frame, k, buffer) ==
    CASE kind = "vacuum" -> VacuumFrame(clip, sample_rate, frame, k, buffer)
      [] kind = "phase" -> PhaseFrame(clip, sample_rate, frame, k, buffer)
      [] kind = "articulation" -> ArticulationFrame(clip, sample_rate, frame, k, buffer)

\* the score from the call's frames and buffer, after the loop
ScoreOf(kind, frames, buffer) ==
    CASE kind = "vacuum" -> SfmScoreOf(frames, buffer)
      [] kind = "phase" -> PhaseScoreOf(frames, buffer)
      [] kind = "articulation" -> ArticulationScoreOf(frames, buffer)

\* one buffer for all calls: the buffer of some call that is in its loop
OwnBuffer_static(cs, t) ==
    cs[CHOOSE u \in Threads : cs[u].pc = "loop"].buffer

\* let mut spectral_features / phase_spectra / frame_features: a local of the call
OwnBuffer(cs, t) == cs[t].buffer

\* the call after validation: returned early, or framed and at the head of its loop
Entered(self, i, clip, sample_rate, validation) ==
    IF ~validation.ok
    THEN [pc |-> "done", inst |-> i, clip |-> clip, sample_rate |-> sample_rate,
          overlapped |-> FALSE,
          result |-> ValidationFailure(self, validation.err)]
    ELSE [pc |-> "loop", inst |-> i, clip |-> clip, sample_rate |-> sample_rate,
          overlapped |-> FALSE,
          frames |-> FramesOf(self.kind, clip, sample_rate), k |-> 0, buffer |-> <<>>,
          asked |-> <<>>]

\* the frames (0-based) the transform has been requested for: compute_fft is
\* called past the `continue` that a silent frame takes
Requested(clip, k, asked) ==
    IF IsSilent(WindowedRms(clip, k)) THEN asked ELSE Append(asked, k)

\* the call after one more frame
Stepped(self, c, buffer) ==
    [c EXCEPT !.k = @ + 1,
              !.asked = Requested(c.clip, c.k, @),
              !.buffer = FrameStep(self.kind, c.clip, c.sample_rate,
                                   c.frames[c.k + 1], c.k, buffer)]

\* the call after the loop: scored and decided
Scored(self, c, buffer) ==
    [pc |-> "done", inst |-> c.inst, clip |-> c.clip, sample_rate |-> c.sample_rate,
     overlapped |-> c.overlapped,
     result |-> Verdict(self, ScoreOf(self.kind, c.frames, buffer))]

\* the loop of call c has a frame left
InLoop(self, c) ==
    /\ c.pc = "loop"
    /\ Len(c.frames) >= MinFrames(self.kind)
    /\ c.k < Len(c.frames)

----------------------------------------------------------------------------
(* Spec: one caller, every operation atomic *)

Idle == [pc |-> "idle"]

Init ==
    /\ sensors = [i \in Insts |-> None]
    /\ last = [op |-> "init"]
    /\ memo = None
    /\ calls = <<>>
    /\ held = None
    /\ built = None
    /\ writes = <<>>

\* forget the remembered call when its detector is replaced or reconfigured
Forget(i) == IF memo # None /\ memo[1].inst = i THEN None ELSE memo

New(i, kind, threshold) ==
    /\ sensors' = [sensors EXCEPT ![i] = Some(new(kind, threshold))]
    /\ last' = [op |-> "new", inst |-> i, kind |-> kind, arg |-> threshold]
    /\ memo' = Forget(i)
    /\ UNCHANGED <<calls, held, built, writes>>

SetThreshold(i, value) ==
    /\ sensors[i] # None
    /\ sensors' = [sensors EXCEPT ![i] = Some(set_threshold(sensors[i][1], value))]
    /\ last' = [op |-> "set", inst |-> i, arg |-> value]
    /\ memo' = Forget(i)
    /\ UNCHANGED <<calls, held, built, writes>>

\* the remembered call after one more call: gap counts the calls made since,
\* mixed tells whether one of them had another input
Later(m, clip, sample_rate) ==
    [m EXCEPT !.gap = Min(@ + 1, MaxGap),
              !.mixed = @ \/ m.clip # clip \/ m.sample_rate # sample_rate]

\* the remembered call: this one, or the earlier one with one more call after it
Remember(call) ==
    \/ memo' = Some(call)
    \/ /\ memo # None
       /\ memo' = Some(Later(memo[1], call.clip, call.sample_rate))

Returned(i, clip, sample_rate, result) ==
    /\ last' = [op |-> "analyze", inst |-> i, clip |-> clip,
                sample_rate |-> sample_rate, result |-> result]
    /\ Remember([inst |-> i, clip |-> clip, sample_rate |-> sample_rate,
                 result |-> result, gap |-> 0, mixed |-> FALSE])

Analyze(i, clip, sample_rate) ==
    /\ sensors[i] # None
    /\ sensors' = [sensors EXCEPT
                      ![i] = Some(self_after_analyze(sensors[i][1], clip, sample_rate))]
    /\ Returned(i, clip, sample_rate, analyze(sensors[i][1], clip, sample_rate))
    /\ UNCHANGED <<calls, held, built, writes>>

Next ==
    \/ \E i \in SeqInsts, kind \in Kinds, threshold \in ThresholdArgs :
           New(i, kind, threshold)
    \/ \E i \in SeqInsts, value \in SetterArgs : SetThreshold(i, value)
    \/ \E i \in SeqInsts, clip \in Clips, sample_rate \in Rates :
           Analyze(i, clip, sample_rate)

Spec == Init /\ [][Next]_vars

----------------------------------------------------------------------------
(* SpecValidate: validate_audio_input applied to buffers and rates *)

Validate(clip, sample_rate) ==
    /\ last' = [op |-> "validate", clip |-> clip, sample_rate |-> sample_rate,
                out |-> validate_audio_input(clip, sample_rate)]
    /\ UNCHANGED <<sensors, memo, calls, held, built, writes>>

NextValidate ==
    \E clip \in {c \in ShortClips : WellFormed(c)}, sample_rate \in WideRates :
        Validate(clip, sample_rate)

SpecValidate == Init /\ [][NextValidate]_vars

----------------------------------------------------------------------------
(* SpecConc: two callers, their analyze calls interleaved frame by frame *)

InitConc ==
    /\ \E kind \in Kinds :
           sensors = [i \in Insts |->
                         IF i = "s1" THEN Some(new(kind, None))
                         ELSE Some(new(kind, Some(500)))]
    /\ last = [op |-> "init"]
    /\ memo = None
    /\ calls = [t \in Threads |-> Idle]
    /\ held = None
    /\ built = None
    /\ writes = <<>>

\* analyze is entered: the input is validated and framed
Begin(t, i, clip, sample_rate) ==
    /\ calls[t].pc = "idle"
    /\ sensors[i] # None
    /\ calls' = [calls EXCEPT
                    ![t] = Entered(sensors[i][1], i, clip, sample_rate,
                                   validate_audio_input(clip, sample_rate))]
    /\ UNCHANGED <<sensors, last, memo, held, built, writes>>

\* the calls as they are once call t has made a step: the others that are in
\* their loop have now run alongside another call
Alongside(cs, t) ==
    [u \in Threads |->
        IF u # t /\ cs[u].pc = "loop" THEN [cs[u] EXCEPT !.overlapped = TRUE]
        ELSE cs[u]]

\* one iteration of the frame loop of call t
Frame(t) ==
    /\ InLoop(sensors[calls[t].inst][1], calls[t])
    /\ calls' = [Alongside(calls, t) EXCEPT
                    ![t] = Stepped(sensors[calls[t].inst][1], calls[t],
                                   OwnBuffer(calls, t))]
    /\ UNCHANGED <<sensors, last, memo, held, built, writes>>

\* the loop of call t is over: score, verdict and result
Finish(t) ==
    /\ calls[t].pc = "loop"
    /\ ~InLoop(sensors[calls[t].inst][1], calls[t])
    /\ calls' = [Alongside(calls, t) EXCEPT
                    ![t] = Scored(sensors[calls[t].inst][1], calls[t],
                                  OwnBuffer(calls, t))]
    /\ UNCHANGED <<sensors, last, memo, held, built, writes>>

\* the result is handed to the caller
Return(t) ==
    /\ calls[t].pc = "done"
    /\ last' = [op |-> "analyze", inst |-> calls[t].inst, clip |-> calls[t].clip,
                sample_rate |-> calls[t].sample_rate, result |-> calls[t].result]
    /\ calls' = [calls EXCEPT ![t] = Idle]
    /\ UNCHANGED <<sensors, memo, held, built, writes>>

NextConc ==
    \/ \E t \in Threads, i \in Insts, clip \in ConcClips, sample_rate \in ConcRates :
           Begin(t, i, clip, sample_rate)
    \/ \E t \in Threads : Frame(t)
    \/ \E t \in Threads : Finish(t)
    \/ \E t \in Threads : Return(t)

SpecConc == InitConc /\ [][NextConc]_vars

----------------------------------------------------------------------------
(* SpecUtil: the functions of utils/audio.rs and utils/fft.rs, and wrap_phase, *)
(* applied to small buffers given sample by sample                            *)

MaxAudio == 10

MaxFrameLen == 4

MaxPhase == 1000

MaxBins == 8

\* the samples 0, 1, ..., n - 1
Ramp(n) == [i \in 1..n |-> i - 1]

\* the sequences over S of length at most n
SeqsUpTo(S, n) == UNION {[1..m -> S] : m \in 0..n}

\* frames of samples -1.0, 0.0 and 1.0
SmallFrames == SeqsUpTo({-1000, 0, 1000}, MaxFrameLen)

\* spectra in tenths; a negative entry is no magnitude, but is an f64 a caller
\* can pass, and lets the running sum stay below the level
SmallSpectra == SeqsUpTo({-3, 0, 1, 3}, 4) \cup {<<1, 2, 3, 4>>}

Fractions == {-500, 0, 600, 850, 1000, 1500}

UnitSpectra == SeqsUpTo({0, 1, 2}, 4)

FreqLists == {SubSeq(<<0, 100, 200, 300>>, 1, m) : m \in 0..4}

Centroids == {0, 100, 150}

BinRates == {8000, 10000, 16000}

MaxValues == 4

\* feature values in Hz, and the one list of test_stability_score that varies
FeatureLists ==
    SeqsUpTo({100, 103, 110, 300}, MaxValues) \cup {<<100, 110, 95, 105, 100>>}

\* <<min_var, max_var>>
VarianceRanges == {<<5, 50>>, <<50, 500>>}

\* the call a behaviour starts with, and the one application it makes of it
Pending(fn, args) == [op |-> "call", fn |-> fn, args |-> args]

Called(fn, args) == last.op = "call" /\ last.fn = fn /\ last.args = args

UtilFrame == UNCHANGED <<sensors, memo, calls, held, built, writes>>

FrameAudio(audio, frame_size, hop_size) ==
    /\ Called("frame_audio", <<audio, frame_size, hop_size>>)
    /\ last' = [op |-> "frame_audio", audio |-> audio, frame_size |-> frame_size,
                hop_size |-> hop_size,
                frames |-> frame_audio_samples(audio, frame_size, hop_size)]
    /\ UtilFrame

HammingWindow(audio) ==
    /\ Called("apply_hamming_window", <<audio>>)
    /\ last' = [op |-> "apply_hamming_window", audio |-> audio,
                out |-> apply_hamming_window(audio)]
    /\ UtilFrame

WrapPhase(phase) ==
    /\ Called("wrap_phase", <<phase>>)
    /\ last' = [op |-> "wrap_phase", phase |-> phase, out |-> wrap_phase(phase)]
    /\ UtilFrame

ZeroCrossingRate(audio) ==
    /\ Called("zero_crossing_rate", <<audio>>)
    /\ last' = [op |-> "zero_crossing_rate", audio |-> audio,
                out |-> zero_crossing_rate(audio)]
    /\ UtilFrame

SpectralRolloff(magnitudes, rolloff_percent) ==
    /\ Called("spectral_rolloff", <<magnitudes, rolloff_percent>>)
    /\ last' = [op |-> "spectral_rolloff", magnitudes |-> magnitudes,
                rolloff_percent |-> rolloff_percent,
                out |-> spectral_rolloff(magnitudes, rolloff_percent)]
    /\ UtilFrame

SpectralCentroid(magnitudes, frequencies) ==
    /\ Called("spectral_centroid", <<magnitudes, frequencies>>)
    /\ last' = [op |-> "spectral_centroid", magnitudes |-> magnitudes,
                frequencies |-> frequencies,
                out |-> spectral_centroid(magnitudes, frequencies)]
    /\ UtilFrame

SpectralBandwidth(magnitudes, frequencies, centroid) ==
    /\ Called("spectral_bandwidth", <<magnitudes, frequencies, centroid>>)
    /\ last' = [op |-> "spectral_bandwidth", magnitudes |-> magnitudes,
                frequencies |-> frequencies, centroid |-> centroid,
                out |-> spectral_bandwidth(magnitudes, frequencies, centroid)]
    /\ UtilFrame

\* a transform of n bins: the k-th frame of a noise clip, cut to n bins
Transform(n, k) == [ok |-> TRUE, n |-> n, clip |-> Clip(n, {}, "noise"), k |-> k]

Spectrum(n, k) ==
    /\ Called("spectrum", <<n, k>>)
    /\ last' = [op |-> "spectrum", n |-> n, k |-> k,
                magnitude |-> magnitude_spectrum(Transform(n, k)),
                power |-> power_spectrum(Transform(n, k)),
                phase |-> phase_spectrum(Transform(n, k))]
    /\ UtilFrame

FrequencyBins(n_samples, sample_rate) ==
    /\ Called("frequency_bins", <<n_samples, sample_rate>>)
    /\ last' = [op |-> "frequency_bins", n_samples |-> n_samples,
                sample_rate |-> sample_rate,
                out |-> frequency_bins(n_samples, sample_rate)]
    /\ UtilFrame

StabilityScore(values, min_var, max_var) ==
    /\ Called("compute_stability_score", <<values, min_var, max_var>>)
    /\ last' = [op |-> "compute_stability_score", values |-> values,
                min_var |-> min_var, max_var |-> max_var,
                out |-> compute_stability_score(values, min_var, max_var)]
    /\ UtilFrame

\* the pending call is applied to its own arguments
NextUtil ==
    \/ FrameAudio(last.args[1], last.args[2], last.args[3])
    \/ HammingWindow(last.args[1])
    \/ WrapPhase(last.args[1])
    \/ ZeroCrossingRate(last.args[1])
    \/ SpectralRolloff(last.args[1], last.args[2])
    \/ SpectralCentroid(last.args[1], last.args[2])
    \/ SpectralBandwidth(last.args[1], last.args[2], last.args[3])
    \/ Spectrum(last.args[1], last.args[2])
    \/ FrequencyBins(last.args[1], last.args[2])
    \/ StabilityScore(last.args[1], last.args[2], last.args[3])

InitUtil ==
    /\ \/ \E n \in 0..MaxAudio, frame_size \in 0..5, hop_size \in 0..4 :
              last = Pending("frame_audio", <<Ramp(n), frame_size, hop_size>>)
       \/ \E audio \in SmallFrames :
              \/ last = Pending("apply_hamming_window", <<audio>>)
              \/ last = Pending("zero_crossing_rate", <<audio>>)
       \/ \E phase \in (-MaxPhase)..MaxPhase : last = Pending("wrap_phase", <<phase>>)
       \/ \E magnitudes \in SmallSpectra, rolloff_percent \in Fractions :
              last = Pending("spectral_rolloff", <<magnitudes, rolloff_percent>>)
       \/ \E magnitudes \in UnitSpectra, frequencies \in FreqLists :
              \/ last = Pending("spectral_centroid", <<magnitudes, frequencies>>)
              \/ \E centroid \in Centroids :
                     last = Pending("spectral_bandwidth",
                                    <<magnitudes, frequencies, centroid>>)
       \/ \E n \in 0..MaxBins, k \in 0..4 : last = Pending("spectrum", <<n, k>>)
       \/ \E n_samples \in (0..MaxBins) \cup {100}, sample_rate \in BinRates :
              last = Pending("frequency_bins", <<n_samples, sample_rate>>)
       \/ \E values \in FeatureLists, range \in VarianceRanges :
              last = Pending("compute_stability_score", <<values, range[1], range[2]>>)
    /\ sensors = [i \in Insts |-> None]
    /\ memo = None
    /\ calls = <<>>
    /\ held = None
    /\ built = None
    /\ writes = <<>>

SpecUtil == InitUtil /\ [][NextUtil]_vars

----------------------------------------------------------------------------
(* SpecResult: a SensorResult a caller holds, its metadata and its predicates *)

MaxWrites == 3

ResultNames == {"test_sensor"}

PassedArgs == {None, Some(TRUE), Some(FALSE)}

ValueArgs == {500, 950}

ReasonArgs == {None, Some("below_threshold")}

DetailArgs == {None, Some("Test passed")}

MetadataKeys == {"processing_time_ms", "frames"}

MetadataValues == {"15", "16"}

NewResult(sensor_name, passed, value, threshold, reason, detail) ==
    /\ held' = Some(SensorResult_new(sensor_name, passed, value, threshold,
                                     reason, detail))
    /\ built' = held'
    /\ writes' = <<>>
    /\ last' = [op |-> "new_result"]
    /\ UNCHANGED <<sensors, memo, calls>>

DefaultResult ==
    /\ held' = Some(SensorResult_default)
    /\ built' = held'
    /\ writes' = <<>>
    /\ last' = [op |-> "default"]
    /\ UNCHANGED <<sensors, memo, calls>>

AddMetadata(key, value) ==
    /\ held # None
    /\ Len(writes) < MaxWrites
    /\ held' = Some(add_metadata(held[1], key, value))
    /\ writes' = Append(writes, <<key, value>>)
    /\ last' = [op |-> "add_metadata", key |-> key, value |-> value]
    /\ UNCHANGED <<sensors, memo, calls, built>>

IsPass ==
    /\ held # None
    /\ last' = [op |-> "is_pass", out |-> is_pass(held[1])]
    /\ UNCHANGED <<sensors, memo, calls, held, built, writes>>

IsFail ==
    /\ held # None
    /\ last' = [op |-> "is_fail", out |-> is_fail(held[1])]
    /\ UNCHANGED <<sensors, memo, calls, held, built, writes>>

NextResult ==
    \/ \E sensor_name \in ResultNames, passed \in PassedArgs, value \in ValueArgs,
          reason \in ReasonArgs, detail \in DetailArgs :
           NewResult(sensor_name, passed, value, 800, reason, detail)
    \/ DefaultResult
    \/ \E key \in MetadataKeys, value \in MetadataValues : AddMetadata(key, value)
    \/ IsPass
    \/ IsFail

SpecResult == Init /\ [][NextResult]_vars

----------------------------------------------------------------------------
(* Properties *)

\* rate in [8000, 96000], at least 8 samples, all samples finite
PassesValidation(clip, sample_rate) ==
    /\ sample_rate >= 8000
    /\ sample_rate <= 96000
    /\ clip.len >= 8
    /\ clip.bad = {}

\* the detector the last operation was applied to
Target == sensors[last.inst][1]

\* C1: for input that passes validation, the value of the result of analyze
\* of each detector lies in [0, 1]
C1_ValueInUnitInterval ==
    (last.op = "analyze" /\ PassesValidation(last.clip, last.sample_rate))
        => (last.result.value >= 0 /\ last.result.value <= 1000)

\* a score computed from the frames of a long clip, away from 0, 0.5 and 1
C1_Witness ==
    /\ last.op = "analyze"
    /\ PassesValidation(last.clip, last.sample_rate)
    /\ last.clip.len = ClipLen
    /\ last.result.sensor_name = "articulation_sensor"
    /\ last.result.value \notin {0, 500, 1000}

\* C2: on input that fails validation analyze returns a result with
\* passed = Some(false), value = 0.0, reason = "validation_error", a detail,
\* the detector's own sensor_name and the detector's current threshold
C2_ValidationFailureResult ==
    (last.op = "analyze" /\ ~PassesValidation(last.clip, last.sample_rate))
        => /\ last.result.passed = Some(FALSE)
           /\ last.result.value = 0
           /\ last.result.reason = Some("validation_error")
           /\ last.result.detail # None
           /\ last.result.sensor_name = SensorName(Target.kind)
           /\ last.result.threshold = Target.threshold

\* a buffer with a non-finite sample at a rate in range, on a detector whose
\* threshold is not its default
C2_Witness ==
    /\ last.op = "analyze"
    /\ last.clip.bad # {}
    /\ last.sample_rate = 8000
    /\ Target.threshold = 500
    /\ last.result.reason = Some("validation_error")

\* C3: new(Some(t)) stores min(max(t, 0), 1) and new(None) stores the default
\* of the detector: 0.7 vacuum, 0.65 phase, 0.6 articulation
C3_ConstructionClamps ==
    last.op = "new"
        => Target.threshold =
               IF last.arg = None
               THEN (CASE last.kind = "vacuum" -> 700
                       [] last.kind = "phase" -> 650
                       [] last.kind = "articulation" -> 600)
               ELSE Min(Max(last.arg[1], 0), 1000)

\* new(1.5) has stored 1.0
C3_Witness ==
    /\ last.op = "new"
    /\ last.arg = Some(1500)
    /\ Target.threshold = 1000

\* C4: validate succeeds exactly when the rate is in [8000, 96000], the
\* buffer has at least 8 samples and every sample is finite; rates 100 and
\* 200000 fail with InvalidSampleRate, 8 finite samples at a valid rate pass,
\* 7 samples at a valid rate fail with InsufficientData
C4_ValidateExactly ==
    last.op = "validate"
        => /\ last.out.ok <=> PassesValidation(last.clip, last.sample_rate)
           /\ last.sample_rate \in {100, 200000}
                  => (~last.out.ok /\ last.out.err.type = "InvalidSampleRate")
           /\ (last.clip.len = 8 /\ last.clip.bad = {}
               /\ last.sample_rate >= 8000 /\ last.sample_rate <= 96000)
                  => last.out.ok
           /\ (last.clip.len = 7
               /\ last.sample_rate >= 8000 /\ last.sample_rate <= 96000)
                  => (~last.out.ok /\ last.out.err.type = "InsufficientData")

\* 8 finite samples at the upper rate limit have passed
C4_Witness ==
    /\ last.op = "validate"
    /\ last.clip.len = 8
    /\ last.clip.bad = {}
    /\ last.sample_rate = 96000
    /\ last.out.ok

\* C5 as stated: validate fails with InvalidInput for any buffer that
\* contains a NaN or infinite sample
C5_NonFiniteGivesInvalidInput ==
    (last.op = "validate" /\ last.clip.bad # {})
        => (~last.out.ok /\ last.out.err.type = "InvalidInput")

\* C5 as amended: validate fails for any buffer that contains a NaN or
\* infinite sample, and with InvalidInput when the rate is in [8000, 96000]
\* and the buffer has at least 8 samples
C5_NonFiniteFails ==
    (last.op = "validate" /\ last.clip.bad # {})
        => /\ ~last.out.ok
           /\ (last.sample_rate >= 8000 /\ last.sample_rate <= 96000
               /\ last.clip.len >= 8)
                  => last.out.err.type = "InvalidInput"

\* a buffer whose only non-finite sample is infinite has failed with InvalidInput
C5_Witness ==
    /\ last.op = "validate"
    /\ last.clip.bad = {<<7, "inf">>}
    /\ ~last.out.ok
    /\ last.out.err.type = "InvalidInput"

\* C6: for input that passes validation, passed is Some(true) exactly when
\* the score is greater than or equal to the detector's threshold, and
\* Some(false) otherwise; it is never None
C6_PassedIffScoreAtLeastThreshold ==
    (last.op = "analyze" /\ PassesValidation(last.clip, last.sample_rate))
        => /\ last.result.passed # None
           /\ last.result.passed[1] \in BOOLEAN
           /\ last.result.passed[1] <=> (last.result.value >= Target.threshold)

\* a score equal to the threshold has passed
C6_Witness ==
    /\ last.op = "analyze"
    /\ PassesValidation(last.clip, last.sample_rate)
    /\ last.result.value = Target.threshold
    /\ last.result.passed = Some(TRUE)

\* C7: detail is always populated; reason is populated exactly when passed is
\* Some(false); on a failure other than validation it is the fixed code of
\* the detector, and on a pass it is None
C7_ReasonOnlyOnFailure ==
    last.op = "analyze"
        => /\ last.result.detail # None
           /\ last.result.reason # None <=> last.result.passed = Some(FALSE)
           /\ last.result.passed = Some(TRUE) => last.result.reason = None
           /\ (PassesValidation(last.clip, last.sample_rate)
               /\ last.result.passed = Some(FALSE))
                  => last.result.reason =
                         (CASE last.result.sensor_name = "vacuum_sensor"
                                   -> Some("sfm_anomaly")
                            [] last.result.sensor_name = "phase_sensor"
                                   -> Some("phase_anomaly")
                            [] last.result.sensor_name = "articulation_sensor"
                                   -> Some("articulation_anomaly"))

\* a valid clip has failed on the phase detector
C7_Witness ==
    /\ last.op = "analyze"
    /\ PassesValidation(last.clip, last.sample_rate)
    /\ last.result.passed = Some(FALSE)
    /\ last.result.reason = Some("phase_anomaly")

\* the last call repeats the remembered call: same detector, audio and rate
Repeated ==
    /\ memo # None
    /\ last.op = "analyze"
    /\ last.inst = memo[1].inst
    /\ last.clip = memo[1].clip
    /\ last.sample_rate = memo[1].sample_rate

\* C8: two analyze calls with identical audio and rate on one detector, with
\* any number of other analyze calls in between, yield results identical in
\* every field
C8_Idempotent ==
    Repeated => last.result = memo[1].result

\* the repeat came after calls with other inputs, and the result was a score
C8_Witness ==
    /\ Repeated
    /\ memo[1].gap = MaxGap
    /\ memo[1].mixed
    /\ last.result.reason = Some("sfm_anomaly")

\* C9 as stated: after construction the threshold of a detector stays the
\* clamped construction value, within [0, 1]: no operation changes it
C9_ThresholdFixed ==
    [][\A i \in Insts :
          (sensors[i] # None /\ ~(last'.op = "new" /\ last'.inst = i))
              => /\ sensors'[i] # None
                 /\ sensors'[i][1].threshold = sensors[i][1].threshold
                 /\ sensors'[i][1].threshold >= 0
                 /\ sensors'[i][1].threshold <= 1000]_vars

\* C10: in any interleaving of concurrent analyze calls on the same or
\* different detectors, every call produces the result it produces alone
C10_InterleavingIndependent ==
    \A t \in Threads :
        (calls # <<>> /\ calls[t].pc = "done")
            => calls[t].result =
                   analyze(sensors[calls[t].inst][1], calls[t].clip,
                           calls[t].sample_rate)

\* a scored call on a detector another call is in the middle of, the two
\* having run alongside each other
C10_Witness ==
    /\ calls # <<>>
    /\ calls["t1"].pc = "done"
    /\ calls["t1"].overlapped
    /\ calls["t1"].result.reason # Some("validation_error")
    /\ calls["t2"].pc = "loop"
    /\ calls["t2"].k > 0
    /\ calls["t2"].inst = calls["t1"].inst

C12_FrameContents ==
    last.op = "frame_audio" =>
        /\ \A k \in 1..Len(last.frames) :
               /\ Len(last.frames[k]) = last.frame_size
               /\ (k - 1) * last.hop_size + last.frame_size <= Len(last.audio)
               /\ \A j \in 1..last.frame_size :
                      last.frames[k][j] = last.audio[(k - 1) * last.hop_size + j]
        /\ (last.audio = Ramp(10) /\ last.frame_size = 4 /\ last.hop_size = 2) =>
               /\ Len(last.frames) = 4
               /\ last.frames[1] = <<0, 1, 2, 3>>
               /\ last.frames[2] = <<2, 3, 4, 5>>

\* nine samples, frame 4, hop 2: the three full frames, the samples after the
\* last of them left out
C12_Witness ==
    /\ last.op = "frame_audio"
    /\ Len(last.audio) = 9
    /\ last.frame_size = 4
    /\ last.hop_size = 2
    /\ Len(last.frames) = 3
    /\ last.frames[3] = <<4, 5, 6, 7>>

\* C13: apply_hamming_window returns an empty result for every frame of fewer
\* than 2 samples, a frame of one sample included, and a frame of the same
\* length N for every frame of N >= 2 samples.
C13_WindowLength ==
    last.op = "apply_hamming_window" =>
        Len(last.out) = IF Len(last.audio) < 2 THEN 0 ELSE Len(last.audio)

\* C14: wrap_phase(p) is congruent to p modulo 2*pi and lies in the half-open
\* interval (-pi, pi]; wrap(0) = 0, wrap(pi) = pi, wrap(2*pi) = 0,
\* wrap(-2*pi) = 0 and wrap(3*pi) = pi.
C14_WrapHalfOpen ==
    last.op = "wrap_phase" =>
        /\ (last.out - last.phase) % (2 * PI) = 0
        /\ -PI < last.out
        /\ last.out <= PI
        /\ last.phase \in {0, 2 * PI, -2 * PI} => last.out = 0
        /\ last.phase \in {PI, 3 * PI} => last.out = PI

\* C14 as the code has it: wrap_phase(p) is congruent to p modulo 2*pi and lies
\* in the closed interval [-pi, pi], -pi being returned only for a negative p;
\* wrap(0) = 0, wrap(pi) = pi, wrap(2*pi) = 0, wrap(-2*pi) = 0, wrap(3*pi) = pi.
C14_WrapClosed ==
    last.op = "wrap_phase" =>
        /\ (last.out - last.phase) % (2 * PI) = 0
        /\ -PI <= last.out
        /\ last.out <= PI
        /\ last.out = -PI => last.phase < 0
        /\ last.phase \in {0, 2 * PI, -2 * PI} => last.out = 0
        /\ last.phase \in {PI, 3 * PI} => last.out = PI

\* a phase below -pi after the remainder is brought back up by 2*pi
C14_Witness ==
    /\ last.op = "wrap_phase"
    /\ last.phase = -(PI + 100)
    /\ last.out = PI - 100

\* C15: zero_crossing_rate is 0.0 for a frame shorter than 2 samples and
\* otherwise the number of adjacent pairs whose samples differ in sign, 0.0
\* counting as non-negative, divided by len - 1; it lies in [0, 1] and is 1.0
\* for a strictly alternating frame such as [1, -1, 1, -1].
C15_ZeroCrossingRate ==
    last.op = "zero_crossing_rate" =>
        /\ Len(last.audio) < 2 => last.out = 0
        /\ Len(last.audio) >= 2 =>
               last.out =
                   (Cardinality({i \in 1..(Len(last.audio) - 1) :
                                    (last.audio[i] >= 0) # (last.audio[i + 1] >= 0)})
                    * One) \div (Len(last.audio) - 1)
        /\ 0 <= last.out
        /\ last.out <= One
        /\ last.audio = <<1000, -1000, 1000, -1000>> => last.out = One

\* a frame holding a zero next to a negative sample: the pair counts as a crossing
C15_Witness ==
    /\ last.op = "zero_crossing_rate"
    /\ last.audio = <<0, -1000, -1000>>
    /\ last.out = 500

\* the bins (1-based) at which the running sum of the magnitudes has reached
\* the fraction, clamped to [0, 1], of their total
BinsReached(magnitudes, fraction) ==
    {i \in 1..Len(magnitudes) :
        Sum(SubSeq(magnitudes, 1, i)) * One >= Sum(magnitudes) * Clamp(fraction, 0, One)}

\* C16: spectral_rolloff returns the smallest bin index at which the running sum
\* of the magnitudes reaches the fraction, clamped to [0, 1], of their total,
\* the last index if that level is never reached and 0 for an empty spectrum;
\* the index is a valid index of a non-empty spectrum ([0.1, 0.2, 0.3, 0.4] at
\* 60% gives 2).
C16_Rolloff ==
    last.op = "spectral_rolloff" =>
        /\ Len(last.magnitudes) = 0 => last.out = 0
        /\ Len(last.magnitudes) > 0 =>
               /\ last.out \in 0..(Len(last.magnitudes) - 1)
               /\ IF BinsReached(last.magnitudes, last.rolloff_percent) = {}
                  THEN last.out = Len(last.magnitudes) - 1
                  ELSE /\ last.out + 1 \in BinsReached(last.magnitudes, last.rolloff_percent)
                       /\ \A i \in BinsReached(last.magnitudes, last.rolloff_percent) :
                              last.out + 1 <= i
        /\ (last.magnitudes = <<1, 2, 3, 4>> /\ last.rolloff_percent = 600) =>
               last.out = 2

\* the level is reached at the second bin of three, before the last
C16_Witness ==
    /\ last.op = "spectral_rolloff"
    /\ last.magnitudes = <<3, 3, 1>>
    /\ last.rolloff_percent = 600
    /\ last.out = 1

\* the entries of both sequences that spectral_centroid and spectral_bandwidth use
SharedLen(magnitudes, frequencies) == Min(Len(magnitudes), Len(frequencies))

SharedPrefix(values, magnitudes, frequencies) ==
    SubSeq(values, 1, SharedLen(magnitudes, frequencies))

\* C17: spectral_centroid and spectral_bandwidth return 0.0 when either input is
\* empty or the total magnitude over the shared prefix is below epsilon, use
\* only the first min(len) entries of both sequences, and otherwise the centroid
\* is the magnitude-weighted mean frequency (100.0 for magnitudes [0, 1, 0, 0]
\* and frequencies [0, 100, 200, 300]).
C17_CentroidBandwidth ==
    last.op \in {"spectral_centroid", "spectral_bandwidth"} =>
        LET used == SharedLen(last.magnitudes, last.frequencies)
            total == Sum(SharedPrefix(last.magnitudes, last.magnitudes, last.frequencies))
            degenerate == Len(last.magnitudes) = 0 \/ Len(last.frequencies) = 0 \/ total < 1
        IN  /\ degenerate => last.out = 0
            /\ last.op = "spectral_centroid" =>
                   /\ last.out = spectral_centroid(
                          SharedPrefix(last.magnitudes, last.magnitudes, last.frequencies),
                          SharedPrefix(last.frequencies, last.magnitudes, last.frequencies))
                   /\ ~degenerate =>
                          /\ last.out * total <=
                                 Sum([i \in 1..used |->
                                         last.magnitudes[i] * last.frequencies[i]])
                          /\ (last.out + 1) * total >
                                 Sum([i \in 1..used |->
                                         last.magnitudes[i] * last.frequencies[i]])
                   /\ (last.magnitudes = <<0, 1, 0, 0>>
                       /\ last.frequencies = <<0, 100, 200, 300>>) => last.out = 100
            /\ last.op = "spectral_bandwidth" =>
                   /\ last.out >= 0
                   /\ last.out = spectral_bandwidth(
                          SharedPrefix(last.magnitudes, last.magnitudes, last.frequencies),
                          SharedPrefix(last.frequencies, last.magnitudes, last.frequencies),
                          last.centroid)

\* four magnitudes against two frequencies: the magnitudes past the second are
\* not part of the mean
C17_Witness ==
    /\ last.op = "spectral_centroid"
    /\ last.magnitudes = <<1, 1, 2, 2>>
    /\ last.frequencies = <<0, 100>>
    /\ last.out = 50

\* C18: for a transform of N >= 1 bins the magnitude, power and phase spectra
\* each have floor(N/2) + 1 entries, taken from the first bins of the transform;
\* frequency_bins(N, sample_rate) has the same number of entries, entry i being
\* i * sample_rate / N; all four are empty for N = 0.
C18_PositiveBins ==
    /\ last.op = "spectrum" =>
           LET n_positive == IF last.n = 0 THEN 0 ELSE last.n \div 2 + 1
               clip == Transform(last.n, last.k).clip
           IN  /\ Len(last.magnitude) = n_positive
               /\ Len(last.power) = n_positive
               /\ Len(last.phase) = n_positive
               /\ \A j \in 1..n_positive :
                      /\ last.magnitude[j] = BinMagnitude(clip, last.k, j - 1)
                      /\ last.power[j] =
                             (BinMagnitude(clip, last.k, j - 1)
                              * BinMagnitude(clip, last.k, j - 1)) \div One
                      /\ last.phase[j] = BinPhase(clip, last.k, j - 1)
    /\ last.op = "frequency_bins" =>
           /\ Len(last.out) = IF last.n_samples = 0 THEN 0 ELSE last.n_samples \div 2 + 1
           /\ \A j \in 1..Len(last.out) :
                  last.out[j] = ((j - 1) * last.sample_rate) \div last.n_samples
           /\ (last.n_samples = 100 /\ last.sample_rate = 10000) =>
                  /\ Len(last.out) = 51
                  /\ last.out[2] = 100

\* a transform of five bins: three positive-frequency entries in each spectrum
C18_Witness ==
    /\ last.op = "spectrum"
    /\ last.n = 5
    /\ Len(last.magnitude) = 3
    /\ Len(last.power) = 3
    /\ Len(last.phase) = 3

\* C19: is_pass() is true exactly when passed is Some(true) and is_fail() is
\* true exactly when passed is Some(false); the two are never both true, and
\* both are false when passed is None.
C19_PassFailPredicates ==
    held # None =>
        /\ last.op = "is_pass" => (last.out <=> held[1].passed = Some(TRUE))
        /\ last.op = "is_fail" => (last.out <=> held[1].passed = Some(FALSE))
        /\ ~(is_pass(held[1]) /\ is_fail(held[1]))
        /\ held[1].passed = None => (~is_pass(held[1]) /\ ~is_fail(held[1]))

\* is_pass asked of an info-only result
C19_Witness ==
    /\ held # None
    /\ held[1].passed = None
    /\ last = [op |-> "is_pass", out |-> FALSE]

\* the keys written to the held result, and the value of the last write to a key
WrittenKeys == {writes[i][1] : i \in 1..Len(writes)}

LastWriteTo(key) ==
    writes[CHOOSE i \in 1..Len(writes) :
               /\ writes[i][1] = key
               /\ \A j \in (i + 1)..Len(writes) : writes[j][1] # key][2]

\* C20: a SensorResult starts with an empty metadata map; after any sequence of
\* add_metadata calls the map holds each key written exactly once, mapped to
\* the value of the last write to that key; add_metadata leaves sensor_name,
\* passed, value, threshold, reason, detail and all other keys unchanged.
C20_MetadataLastWriteWins ==
    held # None =>
        /\ writes = <<>> => held[1].metadata = EmptyMap
        /\ DOMAIN held[1].metadata = WrittenKeys
        /\ \A key \in WrittenKeys : held[1].metadata[key] = LastWriteTo(key)
        /\ \A field \in {"sensor_name", "passed", "value", "threshold", "reason", "detail"} :
               held[1][field] = built[1][field]

\* a key written twice with another key written in between
C20_Witness ==
    /\ held # None
    /\ writes = << <<"frames", "15">>, <<"processing_time_ms", "15">>, <<"frames", "16">> >>
    /\ held[1].metadata["frames"] = "16"
    /\ held[1].metadata["processing_time_ms"] = "15"
    /\ held[1].passed = Some(TRUE)

\* C21: analyze leaves the detector unchanged: over any sequence of analyze
\* calls, on valid or invalid input, the threshold and the name of the detector
\* stay what they were before the calls, and the threshold field of every
\* result is that threshold.
C21_AnalyzeLeavesDetector ==
    /\ [](memo # None =>
              /\ memo[1].result.threshold = sensors[memo[1].inst][1].threshold
              /\ memo[1].result.sensor_name = sensors[memo[1].inst][1].name)
    /\ [][last'.op = "analyze" =>
              /\ sensors' = sensors
              /\ last'.result.threshold = sensors[last'.inst][1].threshold
              /\ last'.result.sensor_name = sensors[last'.inst][1].name]_vars

\* a detector built with threshold 0.5 after a call on invalid input followed
\* by calls on other inputs, the last of them scored
C21_Witness ==
    /\ memo # None
    /\ memo[1].gap = MaxGap
    /\ memo[1].mixed
    /\ memo[1].result.reason = Some("validation_error")
    /\ memo[1].result.threshold = 500
    /\ last.op = "analyze"
    /\ PassesValidation(last.clip, last.sample_rate)
    /\ last.result.threshold = 500
    /\ Target.threshold = 500

\* the frames (0-based) before frame k whose windowed RMS is at least 1e-6, in order
LiveFrames(clip, k) ==
    SelectSeq([i \in 1..k |-> i - 1], LAMBDA x : WindowedRms(clip, x) >= 1)

\* what tells the frame a record was made from: the RMS a feature record
\* holds, the phase of the first bin of a phase spectrum
Mark(kind, record) == IF kind = "phase" THEN record[1] ELSE record.rms

MarkOf(kind, clip, k) ==
    IF kind = "phase" THEN BinPhase(clip, k, 0) ELSE WindowedRms(clip, k)

\* C22: in each detector a frame whose windowed RMS is below 1e-6 is skipped
\* without ending the analysis: it adds no feature record, the transform is not
\* requested for it (so never for an empty frame), and the frames after it are
\* still processed, in order.
C22_SilentFramesSkipped ==
    \A t \in Threads :
        (calls # <<>> /\ calls[t].pc = "loop") =>
            /\ calls[t].asked = LiveFrames(calls[t].clip, calls[t].k)
            /\ Len(calls[t].buffer) = Len(calls[t].asked)
            /\ \A j \in 1..Len(calls[t].asked) :
                   /\ calls[t].frames[calls[t].asked[j] + 1].len > 0
                   /\ Mark(sensors[calls[t].inst][1].kind, calls[t].buffer[j]) =
                          MarkOf(sensors[calls[t].inst][1].kind, calls[t].clip,
                                 calls[t].asked[j])

\* all five frames of a clip are done, the second and the fourth silent: three
\* records, the last of them of the frame after the second silent one
C22_Witness ==
    /\ calls # <<>>
    /\ calls["t1"].pc = "loop"
    /\ Len(calls["t1"].frames) = 5
    /\ calls["t1"].k = 5
    /\ WindowedRms(calls["t1"].clip, 1) = 0
    /\ WindowedRms(calls["t1"].clip, 3) = 0
    /\ calls["t1"].asked = <<0, 2, 4>>
    /\ Len(calls["t1"].buffer) = 3

\* the number of frames framing yields for a detector, and the number of them
\* whose windowed RMS is at least 1e-6
RawFrames(kind, clip, sample_rate) ==
    IF \/ ScaledFrameSize(kind, sample_rate) = 0
       \/ ScaledHopSize(kind, sample_rate) = 0
       \/ clip.len < ScaledFrameSize(kind, sample_rate)
    THEN 0
    ELSE (clip.len - ScaledFrameSize(kind, sample_rate))
             \div ScaledHopSize(kind, sample_rate) + 1

Surviving(kind, clip, sample_rate) ==
    Cardinality({k \in 0..(RawFrames(kind, clip, sample_rate) - 1) :
                    WindowedRms(clip, k) >= 1})

\* the last operation was analyze of a detector of this kind on valid input
Analyzed(kind) ==
    /\ last.op = "analyze"
    /\ PassesValidation(last.clip, last.sample_rate)
    /\ Target.kind = kind

\* C23: the vacuum detector returns the neutral score 0.5 for valid input
\* whenever fewer than 3 frames survive the silence filter, a clip shorter than
\* one frame and an entirely silent clip included; the result then passes
\* exactly when the threshold is at most 0.5 and otherwise fails with reason
\* sfm_anomaly.
C23_VacuumNeutral ==
    (Analyzed("vacuum") /\ Surviving("vacuum", last.clip, last.sample_rate) < 3)
        => /\ last.result.value = 500
           /\ last.result.passed = Some(Target.threshold <= 500)
           /\ Target.threshold > 500 => last.result.reason = Some("sfm_anomaly")
           /\ Target.threshold <= 500 => last.result.reason = None

\* two of the six frames of a clip survive, on a detector with the default
\* threshold 0.7: neutral score, failed
C23_Witness ==
    /\ Analyzed("vacuum")
    /\ RawFrames("vacuum", last.clip, last.sample_rate) = 6
    /\ Surviving("vacuum", last.clip, last.sample_rate) = 2
    /\ Target.threshold = 700
    /\ last.result.value = 500
    /\ last.result.reason = Some("sfm_anomaly")

\* C24: the articulation detector returns the neutral score 0.5 for valid input
\* whenever framing yields fewer than 5 raw frames or fewer than 3 frames
\* survive the silence filter; it computes a combined score only when both
\* minimums are met.
C24_ArticulationNeutral ==
    Analyzed("articulation") =>
        /\ (\/ RawFrames("articulation", last.clip, last.sample_rate) < 5
            \/ Surviving("articulation", last.clip, last.sample_rate) < 3)
               => last.result.value = 500
        /\ last.result.value # 500
               => /\ RawFrames("articulation", last.clip, last.sample_rate) >= 5
                  /\ Surviving("articulation", last.clip, last.sample_rate) >= 3

\* four raw frames, none of them silent: one frame short of a combined score
C24_Witness ==
    /\ Analyzed("articulation")
    /\ RawFrames("articulation", last.clip, last.sample_rate) = 4
    /\ Surviving("articulation", last.clip, last.sample_rate) = 4
    /\ last.result.value = 500

\* the phase spectra of the frames of a clip that survive the silence filter
SurvivingSpectra(clip, sample_rate) ==
    PhaseSpectraLoop(clip, sample_rate, PhaseFrames(clip, sample_rate), 0, <<>>)

\* 0.4 * coherence + 0.3 * 0.5 + 0.3 * randomness, clamped
CombinedWithNeutralDerivative(phase_spectra) ==
    Clamp((400 * compute_cross_frame_coherence(phase_spectra) + 300 * 500
           + 300 * compute_phase_randomness_score(phase_spectra)) \div One, 0, One)

\* C25: the phase detector returns the neutral score 0.5 for valid input
\* whenever fewer than 2 frames survive the silence filter; with exactly 2
\* surviving frames it computes a combined score in which the phase-derivative
\* sub-score, which needs at least 3 frames, takes the neutral value 0.5.
C25_PhaseNeutral ==
    Analyzed("phase") =>
        /\ Surviving("phase", last.clip, last.sample_rate) < 2
               => last.result.value = 500
        /\ Surviving("phase", last.clip, last.sample_rate) = 2
               => /\ compute_phase_derivative_score(
                         SurvivingSpectra(last.clip, last.sample_rate)) = 500
                  /\ last.result.value =
                         CombinedWithNeutralDerivative(
                             SurvivingSpectra(last.clip, last.sample_rate))

\* two of six frames survive: a combined score that is not the neutral one
C25_Witness ==
    /\ Analyzed("phase")
    /\ RawFrames("phase", last.clip, last.sample_rate) = 6
    /\ Surviving("phase", last.clip, last.sample_rate) = 2
    /\ last.result.value = 850

\* the sample variance of at least two values (divisor N - 1), and the floor of
\* its square root
SampleVariance(values) ==
    Sum([i \in 1..Len(values) |->
            (values[i] - Div(Sum(values), Len(values)))
            * (values[i] - Div(Sum(values), Len(values)))]) \div (Len(values) - 1)

RootOf(variance) ==
    CHOOSE root \in 0..variance :
        root * root <= variance /\ (root + 1) * (root + 1) > variance

\* C26: for at least 2 values the stability score uses the sample standard
\* deviation (divisor N - 1) and is std / min_var when std < min_var,
\* max_var / std when std > max_var and 1 otherwise; it lies in [0, 1], is 1
\* exactly when min_var <= std <= max_var and is 0 for constant values; for
\* fewer than 2 values it is 0.5.
C26_StabilityScore ==
    last.op = "compute_stability_score" =>
        /\ Len(last.values) < 2 => last.out = 500
        /\ Len(last.values) >= 2 =>
               LET std_dev == RootOf(SampleVariance(last.values))
               IN  /\ last.out =
                          IF std_dev < last.min_var
                          THEN (std_dev * One) \div last.min_var
                          ELSE IF std_dev > last.max_var
                          THEN (last.max_var * One) \div std_dev
                          ELSE One
                   /\ last.out >= 0
                   /\ last.out <= One
                   /\ last.out = One <=>
                          (last.min_var <= std_dev /\ std_dev <= last.max_var)
                   /\ (\A i \in 1..Len(last.values) : last.values[i] = last.values[1])
                          => last.out = 0

\* three values whose sample deviation, 5.1, is within [5, 50] while their
\* population deviation, 4.2, is not
C26_Witness ==
    /\ last.op = "compute_stability_score"
    /\ last.values = <<100, 103, 110>>
    /\ last.min_var = 5
    /\ last.out = One

\* the lowest index of a non-finite sample of a buffer that has one
LowestBad(clip) ==
    CHOOSE i \in {b[1] : b \in clip.bad} : \A b \in clip.bad : i <= b[1]

\* C27: validate checks in a fixed order and reports only the first failure:
\* a rate out of range gives InvalidSampleRate whatever the buffer holds;
\* otherwise fewer than 8 samples give InsufficientData even with NaN or
\* infinite samples among them; only otherwise a non-finite sample gives
\* InvalidInput, naming the lowest offending index.
C27_ValidationOrder ==
    last.op = "validate" =>
        IF last.sample_rate < 8000 \/ last.sample_rate > 96000
        THEN /\ ~last.out.ok
             /\ last.out.err = [type |-> "InvalidSampleRate", rate |-> last.sample_rate]
        ELSE IF last.clip.len < 8
        THEN /\ ~last.out.ok
             /\ last.out.err = [type |-> "InsufficientData", required |-> 8,
                                actual |-> last.clip.len]
        ELSE IF last.clip.bad # {}
        THEN /\ ~last.out.ok
             /\ last.out.err.type = "InvalidInput"
             /\ last.out.err.at = LowestBad(last.clip)
             /\ last.out.err.what =
                    (IF <<LowestBad(last.clip), "nan">> \in last.clip.bad
                     THEN "NaN" ELSE "Infinite")
        ELSE last.out.ok

\* seven samples, two of them non-finite, at a rate in range: too short
C27_Witness ==
    /\ last.op = "validate"
    /\ last.clip.len = 7
    /\ last.clip.bad = {<<1, "nan">>, <<2, "inf">>}
    /\ last.sample_rate = 8000
    /\ last.out.err.type = "InsufficientData"

\* C28 as stated: every result analyze returns, for valid or invalid input and
\* any threshold a detector can be constructed with, has
\* passed = Some(value >= threshold)
C28_PassedIsComparison ==
    last.op = "analyze" =>
        last.result.passed = Some(last.result.value >= last.result.threshold)

\* C28 as the code has it: on input that passes validation the result has
\* passed = Some(value >= threshold); on input that fails validation it has
\* passed = Some(false) and value 0.0, which is Some(value >= threshold) for
\* every threshold but 0.0
C28_PassedIsComparisonUnlessInvalid ==
    last.op = "analyze" =>
        IF PassesValidation(last.clip, last.sample_rate)
        THEN last.result.passed = Some(last.result.value >= last.result.threshold)
        ELSE /\ last.result.passed = Some(FALSE)
             /\ last.result.value = 0
             /\ last.result.threshold # 0 =>
                    last.result.passed = Some(last.result.value >= last.result.threshold)
             /\ last.result.threshold = 0 =>
                    last.result.passed # Some(last.result.value >= last.result.threshold)

\* a detector constructed with a threshold that clamps to 0.0 has analyzed a
\* buffer that fails validation: value 0.0 is not below the threshold, passed
\* is Some(false)
C28_Witness ==
    /\ last.op = "analyze"
    /\ ~PassesValidation(last.clip, last.sample_rate)
    /\ Target.threshold = 0
    /\ last.result.threshold = 0
    /\ last.result.value = 0
    /\ last.result.passed = Some(FALSE)

----------------------------------------------------------------------------
(* SpecScale: the frame parameters a detector derives from the sample rate *)

\* usize::MAX with usize taken as 31 bits wide, the widest the model's integers
\* hold; usize is at least 32 bits wide, so a product that fits here fits in usize
USIZE_MAX == (2 ^ 30 - 1) * 2 + 1

\* a * b as usize arithmetic: None when the product does not fit
usize_mul(a, b) == IF b # 0 /\ a > USIZE_MAX \div b THEN None ELSE Some(a * b)

\* sample rates validate_audio_input lets through
ValidRates == MIN_SAMPLE_RATE..MAX_SAMPLE_RATE

\* let frame_size = (sample_rate as usize * FRAME_SIZE) / 16000;
\* let hop_size = (sample_rate as usize * HOP_SIZE) / 16000;
FrameParameters(kind, sample_rate) ==
    /\ Called("frame_parameters", <<kind, sample_rate>>)
    /\ last' = [op |-> "frame_parameters", kind |-> kind, sample_rate |-> sample_rate,
                overflow |-> \/ usize_mul(sample_rate, FRAME_SIZE(kind)) = None
                             \/ usize_mul(sample_rate, HOP_SIZE(kind)) = None,
                frame_size |-> ScaledFrameSize(kind, sample_rate),
                hop_size |-> ScaledHopSize(kind, sample_rate)]
    /\ UtilFrame

NextScale == FrameParameters(last.args[1], last.args[2])

InitScale ==
    /\ \E kind \in Kinds, sample_rate \in ValidRates :
           last = Pending("frame_parameters", <<kind, sample_rate>>)
    /\ sensors = [i \in Insts |-> None]
    /\ memo = None
    /\ calls = <<>>
    /\ held = None
    /\ built = None
    /\ writes = <<>>

SpecScale == InitScale /\ [][NextScale]_vars

\* C29: for every sample rate in [8000, 96000] and every detector, the two
\* products fit the integer type, frame_size is floor(rate * reference frame
\* / 16000) and hop_size is floor(rate * reference hop / 16000), both are at
\* least 1, hop_size <= frame_size, and at 16000 Hz they are 400/160 (vacuum),
\* 512/128 (phase) and 320/160 (articulation)
C29_FrameParameters ==
    last.op = "frame_parameters" =>
        /\ ~last.overflow
        /\ last.frame_size * 16000 <= last.sample_rate * FRAME_SIZE(last.kind)
        /\ last.sample_rate * FRAME_SIZE(last.kind) < (last.frame_size + 1) * 16000
        /\ last.hop_size * 16000 <= last.sample_rate * HOP_SIZE(last.kind)
        /\ last.sample_rate * HOP_SIZE(last.kind) < (last.hop_size + 1) * 16000
        /\ last.frame_size >= 1
        /\ last.hop_size >= 1
        /\ last.hop_size <= last.frame_size
        /\ last.sample_rate = 16000 =>
               <<last.frame_size, last.hop_size>> =
                   CASE last.kind = "vacuum" -> <<400, 160>>
                     [] last.kind = "phase" -> <<512, 128>>
                     [] last.kind = "articulation" -> <<320, 160>>

\* the phase detector at 96000 Hz, the largest product: 3072 and 768
C29_Witness ==
    /\ last.op = "frame_parameters"
    /\ last.kind = "phase"
    /\ last.sample_rate = 96000
    /\ last.frame_size = 3072
    /\ last.hop_size = 768
    /\ ~last.overflow

----------------------------------------------------------------------------
(* SpecFrame: the while loop of frame_audio, one test and one body at a time *)

\* a + b on usize: a build with overflow checks panics (None) when the sum
\* does not fit, a build without them wraps
usize_add(a, b, checked) ==
    IF a > USIZE_MAX - b
    THEN IF checked THEN None ELSE Some(a - (USIZE_MAX - b) - 1)
    ELSE Some(a + b)

\* a.saturating_add(b)
saturating_add(a, b) == IF a > USIZE_MAX - b THEN USIZE_MAX ELSE a + b

\* hop and frame sizes: small ones and the largest usize values
LoopSizes == 0..MaxFrameLen \cup {USIZE_MAX - 1, USIZE_MAX}

\* the early return and the initialisation of the loop
FrameCall(n, frame_size, hop_size) ==
    /\ Called("frame_loop", <<n, frame_size, hop_size>>)
    /\ last' = [op |-> "frame_loop", n |-> n, frame_size |-> frame_size,
                hop_size |-> hop_size, start |-> 0, frames |-> <<>>,
                pc |-> IF frame_size = 0 \/ hop_size = 0 \/ n < frame_size
                       THEN "returned" ELSE "test"]
    /\ UtilFrame

\* while start + frame_size <= audio.len()
FrameTest ==
    /\ last.op = "frame_loop"
    /\ last.pc = "test"
    /\ \E checked \in BOOLEAN :
           LET sum == usize_add(last.start, last.frame_size, checked)
           IN  last' = [last EXCEPT !.pc = IF sum = None THEN "panic"
                                           ELSE IF sum[1] <= last.n THEN "body"
                                           ELSE "returned"]
    /\ UtilFrame

\* the body: end, the slice audio[start..end], the push and the advance
FrameBody ==
    /\ last.op = "frame_loop"
    /\ last.pc = "body"
    /\ LET end == Min(saturating_add(last.start, last.frame_size), last.n)
       IN  last' = IF last.start > end
                   THEN [last EXCEPT !.pc = "panic"]
                   ELSE [last EXCEPT
                            !.frames = Append(@, [start |-> last.start,
                                                  len |-> end - last.start]),
                            !.start = saturating_add(@, last.hop_size),
                            !.pc = "test"]
    /\ UtilFrame

NextFrame ==
    \/ FrameCall(last.args[1], last.args[2], last.args[3])
    \/ FrameTest
    \/ FrameBody

InitFrame ==
    /\ \E n \in 0..MaxAudio, frame_size \in LoopSizes, hop_size \in LoopSizes :
           last = Pending("frame_loop", <<n, frame_size, hop_size>>)
    /\ sensors = [i \in Insts |-> None]
    /\ memo = None
    /\ calls = <<>>
    /\ held = None
    /\ built = None
    /\ writes = <<>>

SpecFrame == InitFrame /\ [][NextFrame]_vars

\* C30: frame_audio terminates for every input: with hop_size >= 1 the start
\* index strictly increases from one iteration to the next, so there are at
\* most len iterations; the call never aborts; every slice taken lies within
\* the buffer; with hop_size = 0 or frame_size = 0 the loop is never entered
C30_FrameLoopTerminates ==
    last.op = "frame_loop" =>
        /\ last.pc # "panic"
        /\ Len(last.frames) <= last.n
        /\ \A k \in 1..Len(last.frames) :
               /\ last.frames[k].start + last.frames[k].len <= last.n
               /\ k > 1 => last.frames[k].start > last.frames[k - 1].start
        /\ last.frames # <<>> =>
               last.start > last.frames[Len(last.frames)].start
        /\ last.frame_size = 0 \/ last.hop_size = 0 =>
               last.pc = "returned" /\ last.frames = <<>>

=============================================================================
